---- MODULE Spec2Model ----
(***************************************************************************)
(* Movie Links backend (smith-md/actor-graph-game): the game engine of     *)
(* src/backend/game_logic.py and the session handlers of                   *)
(* src/backend/main.py, as a state machine.                                *)
(*                                                                         *)
(* Encodings.  Text is a sequence of one-character strings.  A Python      *)
(* Optional is a sequence of length 0 (None) or 1 (the value).  A movie    *)
(* dict keeps the keys id, title, poster_path and popularity; cast_size    *)
(* and release_date are carried by the code but never read by it.          *)
(***************************************************************************)
EXTENDS Integers, Sequences, FiniteSets, TLC

VARIABLES
    GRAPH,              \* main.py GRAPH: the loaded actor-actor graph
    ACTOR_MOVIE_INDEX,  \* main.py ACTOR_MOVIE_INDEX: the loaded index, or None
    game,               \* the MovieConnectionGame of one registry entry
    last,               \* the last request answered and its response
    games,              \* main.py games: the session registry
    now,                \* time.time(), in seconds
    issued,             \* how many ids uuid4() has handed out
    threads,            \* the requests in flight: their position and locals
    state,              \* DailyPuzzleManager.state
    disk,               \* the content of the manager's state file
    rng,                \* the generator of the random module (process-wide)
    today               \* the server's date, as a day number

\* The registry, and the daily selector with what it reads.
registry_vars == <<games, now, issued>>

daily_vars == <<state, disk, rng, today>>

vars == <<GRAPH, ACTOR_MOVIE_INDEX, game, last, registry_vars, threads, daily_vars>>

\* Largest total_guesses a behaviour of the model runs to: an open session
\* takes no further guess once it has counted this many.
MaxGuesses == 3

\* game_logic.py: max_incorrect_guesses: int = 3
DefaultMaxIncorrect == 3

None == <<>>
Some(x) == <<x>>
IsNone(o) == o = <<>>
Val(o) == o[1]

(***************************************************************************)
(* Text: unicodedata.normalize("NFKD", s).encode("ascii", "ignore")        *)
(*       .decode("ascii").lower().strip()                                  *)
(* over a small alphabet: ASCII letters of both cases, the space, a        *)
(* precomposed accented letter ("e_acute", U+00E9), its combining mark     *)
(* ("acute", U+0301), a non-ASCII letter without decomposition            *)
(* ("o_slash", U+00F8) and the no-break space ("nbsp", U+00A0), whose      *)
(* compatibility decomposition is the space.                               *)
(***************************************************************************)
Chars ==
    {"a", "b", "e", "l", "o", "z", "A", "B", " ", "e_acute", "acute", "o_slash",
     "nbsp"}

\* NFKD decomposition of one character.
Nfkd(c) ==
    IF c = "e_acute" THEN <<"e", "acute">>
    ELSE IF c = "nbsp" THEN <<" ">>
    ELSE <<c>>

IsAscii(c) == c \notin {"e_acute", "acute", "o_slash", "nbsp"}

Lower(c) == IF c = "A" THEN "a" ELSE IF c = "B" THEN "b" ELSE c

IsSpace(c) == c = " "

RECURSIVE NfkdStr(_)
NfkdStr(s) == IF s = <<>> THEN <<>> ELSE Nfkd(Head(s)) \o NfkdStr(Tail(s))

AsciiIgnore(s) == SelectSeq(s, IsAscii)

LowerStr(s) == [i \in 1..Len(s) |-> Lower(s[i])]

RECURSIVE LStrip(_)
LStrip(s) == IF s # <<>> /\ IsSpace(Head(s)) THEN LStrip(Tail(s)) ELSE s

RECURSIVE RStrip(_)
RStrip(s) ==
    IF s # <<>> /\ IsSpace(s[Len(s)]) THEN RStrip(SubSeq(s, 1, Len(s) - 1)) ELSE s

Strip(s) == RStrip(LStrip(s))

\* norm with strip() applied to the text as it came.
norm_strip_first(s) == LowerStr(AsciiIgnore(NfkdStr(Strip(s))))

norm(s) == Strip(LowerStr(AsciiIgnore(NfkdStr(s))))

\* Python's `k in idx_key` on strings: k is a contiguous substring.
Contains(hay, needle) ==
    \E i \in 0..(Len(hay) - Len(needle)) :
        SubSeq(hay, i + 1, i + Len(needle)) = needle

Take(s, n) == SubSeq(s, 1, IF Len(s) < n THEN Len(s) ELSE n)

(***************************************************************************)
(* The loaded artifacts (main.py load_graph).  Three actors in a line,     *)
(* actor_1 - actor_2 - actor_3, and four movies in the index.  The graph   *)
(* file and the index file are written by the offline build, and they     *)
(* differ the two ways the build makes them differ:                        *)
(*   - an edge's `movies` list is the top-K cut of the shared movies, so   *)
(*     the index knows a shared movie the edge does not list (movie 12     *)
(*     of actor_1 and actor_2);                                            *)
(*   - the enrichment pass adds to an edge a movie in which an actor is    *)
(*     billed beyond the cast the index was built from (movie 13 of        *)
(*     actor_3, on the edge to actor_2).                                   *)
(* Movies 10 and 11 are on their edges and in both filmographies.  The     *)
(* index file may be absent, which leaves ACTOR_MOVIE_INDEX = None.        *)
(***************************************************************************)
NodeOrder == <<"actor_1", "actor_2", "actor_3">>

Nodes == {NodeOrder[i] : i \in 1..Len(NodeOrder)}

NodeName ==
    [n \in Nodes |->
        CASE n = "actor_1" -> <<"A", "l">>
          [] n = "actor_2" -> <<"B", "o">>
          [] n = "actor_3" -> <<"B", "o", "b">>]

MovieIds == {10, 11, 12, 13}

Popularity == [m \in MovieIds |-> 15 - m]

Title(m) == <<"m", m>>

\* A movie dict as build_full_actor_graph writes it on an edge (no poster).
EdgeMovie(m) ==
    [id |-> m, title |-> Title(m), poster_path |-> None, popularity |-> Popularity[m]]

\* A movie dict as enrich_playable_actor_connections writes it on an edge.
EnrichedMovie(m) ==
    [id |-> m, title |-> Title(m), poster_path |-> Some(<<"p", m>>),
     popularity |-> Popularity[m]]

Edge(a, b) == {a, b}

LoadedGraph ==
    [nodes |-> NodeOrder,
     name  |-> NodeName,
     in_starting_pool |-> [n \in Nodes |-> n # "actor_2"],
     edges |->
        (Edge("actor_1", "actor_2") :> <<EdgeMovie(10)>>)
        @@ (Edge("actor_2", "actor_3") :> <<EdgeMovie(11), EnrichedMovie(13)>>)]

LoadedIndex ==
    [present |-> TRUE,
     movies |->
        [m \in MovieIds |->
            [title |-> Title(m), poster_path |-> Some(<<"p", m>>),
             popularity |-> Popularity[m]]],
     actor_movies |->
        (1 :> <<[movie_id |-> 10], [movie_id |-> 12]>>)
        @@ (2 :> <<[movie_id |-> 10], [movie_id |-> 11], [movie_id |-> 12],
                   [movie_id |-> 13]>>)
        @@ (3 :> <<[movie_id |-> 11]>>)]

NoIndex == [present |-> FALSE, movies |-> <<>>, actor_movies |-> <<>>]

\* graph.has_edge(a, b)
has_edge(graph, a, b) == Edge(a, b) \in DOMAIN graph.edges

\* int(node.split("_")[1]); None stands for the IndexError / ValueError.
tmdb_id_of(node) ==
    CASE node = "actor_1" -> Some(1)
      [] node = "actor_2" -> Some(2)
      [] node = "actor_3" -> Some(3)
      [] OTHER -> None

(***************************************************************************)
(* main.py build_indexes / build_lookup_maps / resolve_from_map_loose.     *)
(* A dict is a sequence of [key, nodes] entries in insertion order.        *)
(***************************************************************************)
\* build_indexes: the actor catalog, one item per node in node order.
build_indexes(nodes, name) ==
    [i \in 1..Len(nodes) |->
        [node |-> nodes[i], name |-> name[nodes[i]], name_norm |-> norm(name[nodes[i]])]]

HasKey(mapping, k) == \E i \in 1..Len(mapping) : mapping[i].key = k

Lookup(mapping, k) ==
    mapping[CHOOSE i \in 1..Len(mapping) : mapping[i].key = k].nodes

\* defaultdict(list): mapping[k].append(v)
MapAppend(mapping, k, v) ==
    IF HasKey(mapping, k)
    THEN [i \in 1..Len(mapping) |->
            IF mapping[i].key = k
            THEN [mapping[i] EXCEPT !.nodes = Append(@, v)]
            ELSE mapping[i]]
    ELSE Append(mapping, [key |-> k, nodes |-> <<v>>])

RECURSIVE build_lookup_maps(_)
build_lookup_maps(actor_index) ==
    IF actor_index = <<>> THEN <<>>
    ELSE LET n    == Len(actor_index)
             rest == build_lookup_maps(SubSeq(actor_index, 1, n - 1))
         IN  MapAppend(rest, actor_index[n].name_norm, actor_index[n].node)

\* Every loaded graph has the same nodes and names, so the map load_graph
\* builds from GRAPH is one value.
ACTOR_BY_NORM == build_lookup_maps(build_indexes(NodeOrder, NodeName))

\* main.py: limit: int = 50
ResolveLimit == 50

\* The `contains` loop of resolve_from_map_loose from entry i on.
RECURSIVE ResolveScan(_, _, _, _, _)
ResolveScan(mapping, k, i, out, limit) ==
    IF i > Len(mapping) THEN out
    ELSE IF Contains(mapping[i].key, k)
         THEN LET out2 == out \o mapping[i].nodes
              IN  IF Len(out2) >= limit THEN out2
                  ELSE ResolveScan(mapping, k, i + 1, out2, limit)
         ELSE ResolveScan(mapping, k, i + 1, out, limit)

\* resolve_from_map_loose without its [:limit] slices.
resolve_whole_lists(key, mapping, contains, limit) ==
    LET k == norm(key)
    IN  IF HasKey(mapping, k) THEN Lookup(mapping, k)
        ELSE IF contains THEN ResolveScan(mapping, k, 1, <<>>, limit)
        ELSE <<>>

resolve_from_map_loose(key, mapping, contains, limit) ==
    LET k == norm(key)
    IN  IF HasKey(mapping, k) THEN Take(Lookup(mapping, k), limit)
        ELSE IF contains THEN Take(ResolveScan(mapping, k, 1, <<>>, limit), limit)
        ELSE <<>>

\* The actor names the model's requests carry.
ActorNames == {<<"B", "o">>, <<"b">>, <<" ", "A", "L">>, <<"z">>, <<>>}

\* resolve_actor_nodes on each of them, computed once.
ResolvedActorNodes ==
    [name \in ActorNames |->
        resolve_from_map_loose(name, ACTOR_BY_NORM, TRUE, ResolveLimit)]

resolve_actor_nodes(name) == ResolvedActorNodes[name]

(***************************************************************************)
(* game_logic.py                                                           *)
(***************************************************************************)
\* get_movies_between_actors
get_movies_between_actors(graph, actor1, actor2) ==
    IF ~has_edge(graph, actor1, actor2) THEN <<>> ELSE graph.edges[Edge(actor1, actor2)]

\* actor_movie_index.get("actor_movies", {}).get(tmdb_id, [])
Filmography(index, tmdb_id) ==
    IF tmdb_id \in DOMAIN index.actor_movies THEN index.actor_movies[tmdb_id] ELSE <<>>

\* any(m["movie_id"] == movie_id for m in credits)
HasMovie(credits, movie_id) == \E i \in 1..Len(credits) : credits[i].movie_id = movie_id

\* The movie dict the code builds from actor_movie_index["movies"][movie_id].
IndexMovieDict(index, movie_id) ==
    [id |-> movie_id,
     title |-> index.movies[movie_id].title,
     poster_path |-> index.movies[movie_id].poster_path,
     popularity |-> index.movies[movie_id].popularity]

\* _validate_with_comprehensive_index asking only for the candidate's
\* filmography.
validate_candidate_only(graph, current_actor, candidate_actor, movie_id, index) ==
    LET cand == tmdb_id_of(candidate_actor)
    IN  IF IsNone(tmdb_id_of(current_actor)) \/ IsNone(cand) THEN None
        ELSE IF movie_id \notin DOMAIN index.movies THEN None
        ELSE IF HasMovie(Filmography(index, Val(cand)), movie_id)
             THEN Some([movie_dict |-> IndexMovieDict(index, movie_id),
                        actor |-> candidate_actor])
             ELSE None

\* _validate_with_comprehensive_index: Some([movie_dict, actor]) or None.
validate_with_comprehensive_index(graph, current_actor, candidate_actor, movie_id, index) ==
    LET cur  == tmdb_id_of(current_actor)
        cand == tmdb_id_of(candidate_actor)
    IN  IF IsNone(cur) \/ IsNone(cand) THEN None
        ELSE IF movie_id \notin DOMAIN index.movies THEN None
        ELSE IF /\ HasMovie(Filmography(index, Val(cur)), movie_id)
                /\ HasMovie(Filmography(index, Val(cand)), movie_id)
             THEN Some([movie_dict |-> IndexMovieDict(index, movie_id),
                        actor |-> candidate_actor])
             ELSE None

\* The first movie of an edge's list with the given id, scanning in order.
RECURSIVE FirstWithId(_, _)
FirstWithId(movies, movie_id) ==
    IF movies = <<>> THEN None
    ELSE IF Head(movies).id = movie_id THEN Some(Head(movies))
    ELSE FirstWithId(Tail(movies), movie_id)

\* pick_movie_and_actor: Some([movie_dict, actor]) or None for (None, None).
RECURSIVE pick_movie_and_actor(_, _, _, _, _)
pick_movie_and_actor(graph, current_actor, movie_id, candidate_actors, index) ==
    IF candidate_actors = <<>> THEN None
    ELSE LET candidate == Head(candidate_actors)
             rest == pick_movie_and_actor(graph, current_actor, movie_id,
                                          Tail(candidate_actors), index)
             byIndex == IF index.present
                        THEN validate_with_comprehensive_index(
                                 graph, current_actor, candidate, movie_id, index)
                        ELSE None
             byEdge == FirstWithId(
                           get_movies_between_actors(graph, current_actor, candidate),
                           movie_id)
         IN  IF ~has_edge(graph, current_actor, candidate) THEN rest
             ELSE IF ~IsNone(byIndex) THEN byIndex
             ELSE IF ~IsNone(byEdge)
                  THEN Some([movie_dict |-> Val(byEdge), actor |-> candidate])
             ELSE rest

\* MovieConnectionGame.__init__
NewGame(start, target, max_incorrect_guesses) ==
    [start |-> start, target |-> target, current |-> start,
     path |-> <<start>>, movies_used |-> <<>>,
     completed |-> FALSE, max_incorrect |-> max_incorrect_guesses,
     incorrect_guesses |-> 0, total_guesses |-> 0, gave_up |-> FALSE,
     pending_movie_id |-> None, pending_movie_dict |-> None]

\* What a method returns, with the object as the method leaves it.
Ret(g, success, message) == [game |-> g, success |-> success, message |-> message]

\* _inc_incorrect without its test of the limit.
inc_incorrect_never_completes(g) == [g EXCEPT !.incorrect_guesses = @ + 1]

\* _inc_incorrect comparing with > for >=.
inc_incorrect_off_by_one(g) ==
    LET n == g.incorrect_guesses + 1
    IN  [g EXCEPT !.incorrect_guesses = n,
                  !.completed = IF n > g.max_incorrect THEN TRUE ELSE @]

\* MovieConnectionGame._inc_incorrect
inc_incorrect(g) ==
    LET n == g.incorrect_guesses + 1
    IN  [g EXCEPT !.incorrect_guesses = n,
                  !.completed = IF n >= g.max_incorrect THEN TRUE ELSE @]

\* self.total_guesses += 1
inc_total(g) == [g EXCEPT !.total_guesses = @ + 1]

\* An accepted move that does not record its movie.
advance_forgets_movie(g, movie_dict, next_actor_node) ==
    [g EXCEPT !.current = next_actor_node,
              !.path = Append(@, next_actor_node)]

\* current, path and movies_used after an accepted move.
advance(g, movie_dict, next_actor_node) ==
    [g EXCEPT !.current = next_actor_node,
              !.path = Append(@, next_actor_node),
              !.movies_used = Append(@, movie_dict)]

\* The end of an accepted move without its test of the target.
check_win_never(g) == Ret(g, TRUE, "Valid move")

\* if self.current == self.target: self.completed = True
check_win(g) ==
    IF g.current = g.target
    THEN Ret([g EXCEPT !.completed = TRUE], TRUE, "you win!")
    ELSE Ret(g, TRUE, "Valid move")

\* guess_movie_only accepting every movie the index holds.
guess_movie_only_any_indexed(g0, index, movie_id) ==
    LET g == inc_total(g0)
    IN  IF ~index.present THEN Ret(g, FALSE, "Cannot validate movie.")
        ELSE IF movie_id \notin DOMAIN index.movies
             THEN Ret(inc_incorrect(g), FALSE, "Movie not found in database.")
        ELSE Ret([g EXCEPT !.pending_movie_id = Some(movie_id),
                           !.pending_movie_dict = Some(IndexMovieDict(index, movie_id))],
                 TRUE, "Valid movie")

\* MovieConnectionGame._guess_movie_only
guess_movie_only(g0, index, movie_id) ==
    LET g   == inc_total(g0)
        cur == tmdb_id_of(g.current)
    IN  IF ~index.present THEN Ret(g, FALSE, "Cannot validate movie.")
        ELSE IF movie_id \notin DOMAIN index.movies
             THEN Ret(inc_incorrect(g), FALSE, "Movie not found in database.")
        ELSE IF IsNone(cur) THEN Ret(g, FALSE, "Invalid actor ID format.")
        ELSE IF ~HasMovie(Filmography(index, Val(cur)), movie_id)
             THEN Ret(inc_incorrect(g), FALSE, "didn't appear in")
        ELSE Ret([g EXCEPT !.pending_movie_id = Some(movie_id),
                           !.pending_movie_dict = Some(IndexMovieDict(index, movie_id))],
                 TRUE, "Valid movie")

\* _guess_actor_with_pending_movie dropping the pending movie when the actor
\* is refused.
guess_actor_failure_clears_pending(g0, graph, index, candidate_actors) ==
    LET g    == inc_total(g0)
        pick == pick_movie_and_actor(graph, g.current, Val(g.pending_movie_id),
                                     candidate_actors, index)
        drop == [g EXCEPT !.pending_movie_id = None, !.pending_movie_dict = None]
    IN  IF candidate_actors = <<>>
        THEN Ret(inc_incorrect(drop), FALSE, "I couldn't find an actor matching")
        ELSE IF IsNone(pick)
             THEN Ret(inc_incorrect(drop), FALSE, "didn't appear in with")
        ELSE check_win([advance(g, Val(pick).movie_dict, Val(pick).actor)
                            EXCEPT !.pending_movie_id = None,
                                   !.pending_movie_dict = None])

\* _guess_actor_with_pending_movie without its total_guesses += 1.
guess_actor_uncounted(g, graph, index, candidate_actors) ==
    LET pick == pick_movie_and_actor(graph, g.current, Val(g.pending_movie_id),
                                     candidate_actors, index)
    IN  IF candidate_actors = <<>>
        THEN Ret(inc_incorrect(g), FALSE, "I couldn't find an actor matching")
        ELSE IF IsNone(pick)
             THEN Ret(inc_incorrect(g), FALSE, "didn't appear in with")
        ELSE check_win([advance(g, Val(pick).movie_dict, Val(pick).actor)
                            EXCEPT !.pending_movie_id = None,
                                   !.pending_movie_dict = None])

\* MovieConnectionGame._guess_actor_with_pending_movie
guess_actor_with_pending_movie(g0, graph, index, candidate_actors) ==
    LET g    == inc_total(g0)
        pick == pick_movie_and_actor(graph, g.current, Val(g.pending_movie_id),
                                     candidate_actors, index)
    IN  IF candidate_actors = <<>>
        THEN Ret(inc_incorrect(g), FALSE, "I couldn't find an actor matching")
        ELSE IF IsNone(pick)
             THEN Ret(inc_incorrect(g), FALSE, "didn't appear in with")
        ELSE check_win([advance(g, Val(pick).movie_dict, Val(pick).actor)
                            EXCEPT !.pending_movie_id = None,
                                   !.pending_movie_dict = None])

\* Case 3 without the _inc_incorrect of its wrong-movie branch.
guess_both_forgives_wrong_movie(g0, graph, index, movie_id, candidate_actors) ==
    LET g    == inc_total(g0)
        pick == pick_movie_and_actor(graph, g.current, movie_id, candidate_actors, index)
        actor_exists ==
            \E i \in 1..Len(candidate_actors) :
                has_edge(graph, g.current, candidate_actors[i])
    IN  IF candidate_actors = <<>>
        THEN Ret(inc_incorrect(g), FALSE, "I couldn't find an actor matching")
        ELSE IF IsNone(pick)
             THEN Ret(g, FALSE,
                      IF actor_exists THEN "doesn't connect"
                      ELSE "aren't directly connected")
        ELSE check_win(advance(g, Val(pick).movie_dict, Val(pick).actor))

\* Case 3 of MovieConnectionGame.guess: movie and actor in one call.
guess_both(g0, graph, index, movie_id, candidate_actors) ==
    LET g    == inc_total(g0)
        pick == pick_movie_and_actor(graph, g.current, movie_id, candidate_actors, index)
        actor_exists ==
            \E i \in 1..Len(candidate_actors) :
                has_edge(graph, g.current, candidate_actors[i])
    IN  IF candidate_actors = <<>>
        THEN Ret(inc_incorrect(g), FALSE, "I couldn't find an actor matching")
        ELSE IF IsNone(pick)
             THEN Ret(inc_incorrect(g), FALSE,
                      IF actor_exists THEN "doesn't connect"
                      ELSE "aren't directly connected")
        ELSE check_win(advance(g, Val(pick).movie_dict, Val(pick).actor))

\* The dispatch counting a guess that carries neither.
guess_dispatch_counts_neither(g, graph, index, movie_id, actor_name) ==
    IF ~IsNone(movie_id) /\ IsNone(actor_name)
    THEN guess_movie_only(g, index, Val(movie_id))
    ELSE IF IsNone(movie_id) /\ ~IsNone(actor_name)
         THEN IF IsNone(g.pending_movie_id)
              THEN Ret(g, FALSE, "You must guess a movie first.")
              ELSE guess_actor_with_pending_movie(
                       g, graph, index, resolve_actor_nodes(Val(actor_name)))
    ELSE IF ~IsNone(movie_id) /\ ~IsNone(actor_name)
         THEN guess_both(g, graph, index, Val(movie_id),
                         resolve_actor_nodes(Val(actor_name)))
    ELSE Ret(inc_total(g), FALSE, "You must provide either a movie or an actor.")

\* The dispatch of MovieConnectionGame.guess on a session that is not
\* completed.  movie_id and actor_name are Optionals; self.resolve_actor is
\* resolve_actor_nodes in every game create_game builds.
guess_dispatch(g, graph, index, movie_id, actor_name) ==
    IF ~IsNone(movie_id) /\ IsNone(actor_name)
    THEN guess_movie_only(g, index, Val(movie_id))
    ELSE IF IsNone(movie_id) /\ ~IsNone(actor_name)
         THEN IF IsNone(g.pending_movie_id)
              THEN Ret(g, FALSE, "You must guess a movie first.")
              ELSE guess_actor_with_pending_movie(
                       g, graph, index, resolve_actor_nodes(Val(actor_name)))
    ELSE IF ~IsNone(movie_id) /\ ~IsNone(actor_name)
         THEN guess_both(g, graph, index, Val(movie_id),
                         resolve_actor_nodes(Val(actor_name)))
    ELSE Ret(g, FALSE, "You must provide either a movie or an actor.")

\* guess without its first two lines.
guess_ignores_completed(g, graph, index, movie_id, actor_name) ==
    guess_dispatch(g, graph, index, movie_id, actor_name)

\* MovieConnectionGame.guess
guess(g, graph, index, movie_id, actor_name) ==
    IF g.completed THEN Ret(g, FALSE, "Game is already complete.")
    ELSE guess_dispatch(g, graph, index, movie_id, actor_name)

\* give_up without its test of completed.
give_up_ignores_completed(g) ==
    Ret([g EXCEPT !.completed = TRUE,
                  !.incorrect_guesses = g.max_incorrect,
                  !.gave_up = TRUE],
        TRUE, "You gave up. Game over.")

\* give_up leaving incorrect_guesses as it was.
give_up_keeps_incorrect(g) ==
    IF g.completed THEN Ret(g, FALSE, "Game is already complete.")
    ELSE Ret([g EXCEPT !.completed = TRUE, !.gave_up = TRUE],
             TRUE, "You gave up. Game over.")

\* MovieConnectionGame.give_up
give_up(g) ==
    IF g.completed THEN Ret(g, FALSE, "Game is already complete.")
    ELSE Ret([g EXCEPT !.completed = TRUE,
                       !.incorrect_guesses = g.max_incorrect,
                       !.gave_up = TRUE],
             TRUE, "You gave up. Game over.")

(***************************************************************************)
(* main.py: the handlers of one session.  The session was created by       *)
(* create_game, which takes any two graph nodes the client names (or two   *)
(* starting-pool actors) and builds the game; the engine's constructor     *)
(* takes max_incorrect_guesses, which the service leaves at its default.   *)
(***************************************************************************)
\* A request (the handler, and which of movieId and actorName its body
\* carries) with the response it got.
Response(op, has_movie, has_actor, status, success, message) ==
    [op |-> op, has_movie |-> has_movie, has_actor |-> has_actor,
     status |-> status, success |-> success, message |-> message]

\* The request bodies of POST /api/game/{id}/guess the model sends.
MovieIdInputs == {None} \cup {Some(m) : m \in MovieIds \cup {99}}

ActorNameInputs == {None} \cup {Some(n) : n \in ActorNames}

\* swap_actors without its test of movies_used.
swap_actors_any_time(g) ==
    Ret([g EXCEPT !.start = g.target,
                  !.target = g.start,
                  !.current = g.target,
                  !.path = <<g.target>>],
        TRUE, "Actors swapped successfully")

\* swap_actors assigning start and then target, one after the other.
swap_actors_one_by_one(g) ==
    IF Len(g.movies_used) > 0
    THEN Ret(g, FALSE, "Cannot swap actors after making a move")
    ELSE Ret([g EXCEPT !.start = g.target,
                       !.target = g.target,
                       !.current = g.target,
                       !.path = <<g.target>>],
             TRUE, "Actors swapped successfully")

\* swap_actors on the game object: the 400 branch, else the swap.
swap_actors(g) ==
    IF Len(g.movies_used) > 0
    THEN Ret(g, FALSE, "Cannot swap actors after making a move")
    ELSE Ret([g EXCEPT !.start = g.target,
                       !.target = g.start,
                       !.current = g.target,
                       !.path = <<g.target>>],
             TRUE, "Actors swapped successfully")

\* The parts a specification does not follow stay as they are here: an empty
\* registry, no request in flight, a selector that was never asked.
NoRegistry == games = <<>> /\ now = 0 /\ issued = 0

NoThreads == threads = <<>>

NoDaily == state = <<>> /\ disk = None /\ rng = <<>> /\ today = 0

\* One session, followed from its creation.
Init ==
    /\ GRAPH = LoadedGraph
    /\ ACTOR_MOVIE_INDEX \in {LoadedIndex, NoIndex}
    /\ \E start, target \in Nodes, m \in 1..DefaultMaxIncorrect :
           game = NewGame(start, target, m)
    /\ last = Response("create_game", FALSE, FALSE, 200, TRUE, "created")
    /\ NoRegistry /\ NoThreads /\ NoDaily

\* POST /api/game/{game_id}/guess
submit_guess(movieId, actorName) ==
    /\ game.completed \/ game.total_guesses < MaxGuesses
    /\ LET r == guess(game, GRAPH, ACTOR_MOVIE_INDEX, movieId, actorName)
       IN  /\ game' = r.game
           /\ last' = Response("guess", ~IsNone(movieId), ~IsNone(actorName), 200,
                               r.success, r.message)
    /\ UNCHANGED <<GRAPH, ACTOR_MOVIE_INDEX, registry_vars, threads, daily_vars>>

\* POST /api/game/{game_id}/swap-actors
SwapActors ==
    /\ LET r == swap_actors(game)
       IN  /\ game' = r.game
           /\ last' = Response("swap_actors", FALSE, FALSE,
                               IF r.success THEN 200 ELSE 400, r.success, r.message)
    /\ UNCHANGED <<GRAPH, ACTOR_MOVIE_INDEX, registry_vars, threads, daily_vars>>

\* POST /api/game/{game_id}/give-up
give_up_game ==
    /\ LET r == give_up(game)
       IN  /\ game' = r.game
           /\ last' = Response("give_up", FALSE, FALSE,
                               IF r.success THEN 200 ELSE 400, r.success, r.message)
    /\ UNCHANGED <<GRAPH, ACTOR_MOVIE_INDEX, registry_vars, threads, daily_vars>>

Guess == \E movieId \in MovieIdInputs, actorName \in ActorNameInputs :
             submit_guess(movieId, actorName)

Next == Guess \/ SwapActors \/ give_up_game

Spec == Init /\ [][Next]_vars

(***************************************************************************)
(* main.py: the session registry.  games is a dict from game id to         *)
(* (game, creation time); the model keeps its items as a sequence in       *)
(* insertion order, the order Python iterates a dict in.  str(uuid4()) is  *)
(* the ordinal of the id among the ids handed out.  The graph has been     *)
(* loaded (GRAPH_READY).                                                   *)
(***************************************************************************)
\* main.py: GAME_TTL_SECONDS = 7200
GAME_TTL_SECONDS == 7200

\* main.py: MAX_GAMES = 5000, which no line of the code reads.  The model
\* runs with a cap this small so that a behaviour can fill the registry.
MAX_GAMES == 1

\* The clock moves on by this many seconds at a time, MaxTicks times at most.
TickSeconds == 7200

MaxTicks == 2

\* The number of sessions a behaviour creates at most.
MaxCreates == 2

\* The number of counted guesses the sessions of the registry take in all.
MaxRegistryGuesses == 1

\* The session NoRegistry's counterpart: a specification that follows the
\* registry keeps its sessions in games.
NoSession == game = <<>>

GameIds(registry) == {registry[i].game_id : i \in 1..Len(registry)}

\* games.get(game_id)
games_get(registry, game_id) ==
    LET hit == SelectSeq(registry, LAMBDA e : e.game_id = game_id)
    IN  IF hit = <<>> THEN None ELSE Some(hit[1])

\* The handlers writing the game object into every entry.
WithGame_every_entry(registry, game_id, g) ==
    [i \in 1..Len(registry) |-> [registry[i] EXCEPT !.game = g]]

\* The handlers change the game object of an entry in place.
WithGame(registry, game_id, g) ==
    [i \in 1..Len(registry) |->
        IF registry[i].game_id = game_id
        THEN [registry[i] EXCEPT !.game = g] ELSE registry[i]]

\* cleanup_expired_games: expired = [gid ... if now - ts > GAME_TTL_SECONDS]
Expired(registry, t) ==
    {registry[i].game_id :
        i \in {k \in 1..Len(registry) : t - registry[k].ts > GAME_TTL_SECONDS}}

\* cleanup_expired_games taking the age the wrong way round: ts - now.
cleanup_reversed_age(registry, t) ==
    SelectSeq(registry, LAMBDA e : ~(e.ts - t > GAME_TTL_SECONDS))

\* cleanup_expired_games
cleanup_expired_games(registry, t) ==
    SelectSeq(registry, LAMBDA e : e.game_id \notin Expired(registry, t))

\* The truth value Python gives an Optional[str].
Truthy(o) == ~IsNone(o) /\ Val(o) # ""

\* The bodies of POST /api/game the model sends: no ids, two nodes, an id
\* that is no node, one id only.
CreateRequests ==
    {[startActorId |-> None, targetActorId |-> None],
     [startActorId |-> Some("actor_3"), targetActorId |-> Some("actor_1")],
     [startActorId |-> Some("actor_1"), targetActorId |-> Some("actor_9")],
     [startActorId |-> Some("actor_1"), targetActorId |-> None]}

\* [n for n in GRAPH.nodes() if GRAPH.nodes[n].get('in_starting_pool', False)]
starting_pool(graph) ==
    SelectSeq(graph.nodes, LAMBDA n : graph.in_starting_pool[n])

\* random.sample(population, 2): any two different members, in any order.
random_sample_2(population) ==
    {<<population[i], population[j]>> :
        i, j \in 1..Len(population)} \
    {<<population[i], population[i]>> : i \in 1..Len(population)}

\* create_game's pick: the first of 100 samples that is no edge of the graph;
\* when all 100 samples were edges, one more sample, taken as it comes.
pick_random_pair(graph, starting_actors) ==
    {p \in random_sample_2(starting_actors) : ~has_edge(graph, p[1], p[2])}
    \cup (IF \E p \in random_sample_2(starting_actors) : has_edge(graph, p[1], p[2])
          THEN random_sample_2(starting_actors) ELSE {})

\* What a registry handler answered: the handler, the game id of the request
\* (of the response, for create_game) and the HTTP status.
Answer(op, game_id, status) == [op |-> op, game_id |-> game_id, status |-> status]

\* create_game from cleanup_expired_games() on, start and target chosen.
insert_game(start, target) ==
    /\ games' = Append(cleanup_expired_games(games, now),
                       [game_id |-> issued + 1,
                        game |-> NewGame(start, target, DefaultMaxIncorrect),
                        ts |-> now])
    /\ issued' = issued + 1
    /\ last' = Answer("create_game", Some(issued + 1), 200)

\* POST /api/game
create_game(request) ==
    /\ issued < MaxCreates
    /\ IF Truthy(request.startActorId) /\ Truthy(request.targetActorId)
       THEN IF \/ Val(request.startActorId) \notin Nodes
               \/ Val(request.targetActorId) \notin Nodes
            THEN /\ last' = Answer("create_game", None, 400)
                 /\ UNCHANGED <<games, issued>>
            ELSE insert_game(Val(request.startActorId), Val(request.targetActorId))
       ELSE IF Len(starting_pool(GRAPH)) < 2
            THEN /\ last' = Answer("create_game", None, 500)
                 /\ UNCHANGED <<games, issued>>
            ELSE \E p \in pick_random_pair(GRAPH, starting_pool(GRAPH)) :
                     insert_game(p[1], p[2])
    /\ UNCHANGED <<GRAPH, ACTOR_MOVIE_INDEX, game, now, threads, daily_vars>>

\* raise HTTPException(status_code=404, detail="Game not found")
game_not_found(op, game_id) ==
    /\ last' = Answer(op, Some(game_id), 404)
    /\ UNCHANGED games

\* A handler of one session once games.get(game_id) has found the entry: r is
\* what the method returned, with the game object as the method left it.
session_answer(op, game_id, r) ==
    /\ games' = WithGame(games, game_id, r.game)
    /\ last' = Answer(op, Some(game_id),
                      IF op = "guess" \/ r.success THEN 200 ELSE 400)

\* The guess bodies sent to the sessions of the registry.
RegistryGuesses == {<<Some(10), Some(<<"B", "o">>)>>, <<None, None>>}

RECURSIVE SumGuesses(_)
SumGuesses(registry) ==
    IF registry = <<>> THEN 0
    ELSE registry[1].game.total_guesses + SumGuesses(Tail(registry))

\* POST /api/game/{game_id}/guess
registry_guess(game_id, body) ==
    /\ SumGuesses(games) < MaxRegistryGuesses
    /\ LET entry == games_get(games, game_id)
       IN  IF IsNone(entry) THEN game_not_found("guess", game_id)
           ELSE session_answer("guess", game_id,
                               guess(Val(entry).game, GRAPH, ACTOR_MOVIE_INDEX,
                                     body[1], body[2]))
    /\ UNCHANGED <<GRAPH, ACTOR_MOVIE_INDEX, game, now, issued, threads, daily_vars>>

\* POST /api/game/{game_id}/swap-actors
registry_swap(game_id) ==
    /\ LET entry == games_get(games, game_id)
       IN  IF IsNone(entry) THEN game_not_found("swap_actors", game_id)
           ELSE session_answer("swap_actors", game_id, swap_actors(Val(entry).game))
    /\ UNCHANGED <<GRAPH, ACTOR_MOVIE_INDEX, game, now, issued, threads, daily_vars>>

\* POST /api/game/{game_id}/give-up
registry_give_up(game_id) ==
    /\ LET entry == games_get(games, game_id)
       IN  IF IsNone(entry) THEN game_not_found("give_up", game_id)
           ELSE session_answer("give_up", game_id, give_up(Val(entry).game))
    /\ UNCHANGED <<GRAPH, ACTOR_MOVIE_INDEX, game, now, issued, threads, daily_vars>>

\* GET /api/game/{game_id}/optimal-path, /optimal-paths: the registry lookup
\* (every two nodes of the graph are connected, so a path is found).
registry_get(game_id) ==
    /\ last' = Answer("get", Some(game_id),
                      IF IsNone(games_get(games, game_id)) THEN 404 ELSE 200)
    /\ UNCHANGED <<GRAPH, ACTOR_MOVIE_INDEX, game, registry_vars, threads, daily_vars>>

\* Time passes.
Tick ==
    /\ now < MaxTicks * TickSeconds
    /\ now' = now + TickSeconds
    /\ UNCHANGED <<GRAPH, ACTOR_MOVIE_INDEX, game, last, games, issued, threads,
                   daily_vars>>

RegistryInit ==
    /\ GRAPH = LoadedGraph
    /\ ACTOR_MOVIE_INDEX = LoadedIndex
    /\ games = <<>> /\ now = 0 /\ issued = 0
    /\ last = Answer("startup", None, 200)
    /\ NoSession /\ NoThreads /\ NoDaily

Create == \E request \in CreateRequests : create_game(request)

RegistryGuess ==
    \E game_id \in 1..MaxCreates, body \in RegistryGuesses :
        registry_guess(game_id, body)

RegistrySwap == \E game_id \in 1..MaxCreates : registry_swap(game_id)

RegistryGiveUp == \E game_id \in 1..MaxCreates : registry_give_up(game_id)

RegistryGet == \E game_id \in 1..MaxCreates : registry_get(game_id)

RegistryNext ==
    Create \/ RegistryGuess \/ RegistrySwap \/ RegistryGiveUp \/ RegistryGet \/ Tick

SpecRegistry == RegistryInit /\ [][RegistryNext]_vars

\* The registry under create-game requests that name their pair, the same
\* actor twice among them, and under swaps and give-ups.
PairRequests ==
    {r \in CreateRequests : Truthy(r.startActorId) /\ Truthy(r.targetActorId)}
    \cup {[startActorId |-> None, targetActorId |-> None],
          [startActorId |-> Some("actor_1"), targetActorId |-> Some("actor_1")],
          [startActorId |-> Some("actor_2"), targetActorId |-> Some("actor_3")]}

CreatePair == \E request \in PairRequests : create_game(request)

PairsNext == CreatePair \/ RegistrySwap \/ RegistryGiveUp

SpecPairs == RegistryInit /\ [][PairsNext]_vars

(***************************************************************************)
(* Requests on one session at the same time.  The handlers are plain def   *)
(* functions, which the server runs on the threads of a pool; main.py and  *)
(* game_logic.py take no lock, so a thread can be switched out between two *)
(* statements of a handler.  A request is followed in steps: the test a    *)
(* handler or method starts with, then its writes (those of guess and of   *)
(* give_up taken together, those of swap_actors one statement at a time).  *)
(***************************************************************************)
Threads == {1, 2}

Idle == [pc |-> "idle"]

\* The guess bodies sent in the race.
RaceGuesses ==
    {<<Some(10), Some(<<"B", "o">>)>>, <<Some(11), Some(<<"B", "o">>)>>,
     <<Some(10), None>>, <<None, Some(<<"B", "o">>)>>}

\* A thread answers its request.
respond(t, response) ==
    /\ threads' = [threads EXCEPT ![t] = Idle]
    /\ last' = response

\* guess: if self.completed: return False, "Game is already complete."
guess_test(t, body) ==
    /\ threads[t].pc = "idle"
    /\ game.completed \/ game.total_guesses < MaxGuesses
    /\ IF game.completed
       THEN respond(t, Response("guess", ~IsNone(body[1]), ~IsNone(body[2]), 200,
                                FALSE, "Game is already complete."))
       ELSE /\ threads' = [threads EXCEPT ![t] = [pc |-> "guess", body |-> body]]
            /\ UNCHANGED last
    /\ UNCHANGED <<GRAPH, ACTOR_MOVIE_INDEX, game, registry_vars, daily_vars>>

\* guess, after the test of completed.
guess_rest(t) ==
    /\ threads[t].pc = "guess"
    /\ LET body == threads[t].body
           r == guess_dispatch(game, GRAPH, ACTOR_MOVIE_INDEX, body[1], body[2])
       IN  /\ game' = r.game
           /\ respond(t, Response("guess", ~IsNone(body[1]), ~IsNone(body[2]), 200,
                                  r.success, r.message))
    /\ UNCHANGED <<GRAPH, ACTOR_MOVIE_INDEX, registry_vars, daily_vars>>

\* swap_actors: if len(game.movies_used) > 0: raise HTTPException(400)
swap_test(t) ==
    /\ threads[t].pc = "idle"
    /\ IF Len(game.movies_used) > 0
       THEN respond(t, Response("swap_actors", FALSE, FALSE, 400, FALSE,
                                "Cannot swap actors after making a move"))
       ELSE /\ threads' = [threads EXCEPT ![t] = [pc |-> "swap_pair"]]
            /\ UNCHANGED last
    /\ UNCHANGED <<GRAPH, ACTOR_MOVIE_INDEX, game, registry_vars, daily_vars>>

\* game.start, game.target = game.target, game.start
swap_pair(t) ==
    /\ threads[t].pc = "swap_pair"
    /\ game' = [game EXCEPT !.start = game.target, !.target = game.start]
    /\ threads' = [threads EXCEPT ![t] = [pc |-> "swap_current"]]
    /\ UNCHANGED <<GRAPH, ACTOR_MOVIE_INDEX, last, registry_vars, daily_vars>>

\* game.current = game.start
swap_current(t) ==
    /\ threads[t].pc = "swap_current"
    /\ game' = [game EXCEPT !.current = game.start]
    /\ threads' = [threads EXCEPT ![t] = [pc |-> "swap_path"]]
    /\ UNCHANGED <<GRAPH, ACTOR_MOVIE_INDEX, last, registry_vars, daily_vars>>

\* game.path = [game.start], and the response
swap_path(t) ==
    /\ threads[t].pc = "swap_path"
    /\ game' = [game EXCEPT !.path = <<game.start>>]
    /\ respond(t, Response("swap_actors", FALSE, FALSE, 200, TRUE,
                           "Actors swapped successfully"))
    /\ UNCHANGED <<GRAPH, ACTOR_MOVIE_INDEX, registry_vars, daily_vars>>

\* give_up: if self.completed: return False, "Game is already complete."
give_up_test(t) ==
    /\ threads[t].pc = "idle"
    /\ IF game.completed
       THEN respond(t, Response("give_up", FALSE, FALSE, 400, FALSE,
                                "Game is already complete."))
       ELSE /\ threads' = [threads EXCEPT ![t] = [pc |-> "give_up"]]
            /\ UNCHANGED last
    /\ UNCHANGED <<GRAPH, ACTOR_MOVIE_INDEX, game, registry_vars, daily_vars>>

\* give_up, after the test of completed.
give_up_rest(t) ==
    /\ threads[t].pc = "give_up"
    /\ game' = [game EXCEPT !.completed = TRUE,
                            !.incorrect_guesses = game.max_incorrect,
                            !.gave_up = TRUE]
    /\ respond(t, Response("give_up", FALSE, FALSE, 200, TRUE,
                           "You gave up. Game over."))
    /\ UNCHANGED <<GRAPH, ACTOR_MOVIE_INDEX, registry_vars, daily_vars>>

SessionRaceInit ==
    /\ GRAPH = LoadedGraph
    /\ ACTOR_MOVIE_INDEX = LoadedIndex
    /\ \E start, target \in Nodes :
           game = NewGame(start, target, DefaultMaxIncorrect)
    /\ last = Response("create_game", FALSE, FALSE, 200, TRUE, "created")
    /\ threads = [t \in Threads |-> Idle]
    /\ NoRegistry /\ NoDaily

GuessTest == \E t \in Threads, body \in RaceGuesses : guess_test(t, body)

GuessRest == \E t \in Threads : guess_rest(t)

SwapTest == \E t \in Threads : swap_test(t)

SwapPair == \E t \in Threads : swap_pair(t)

SwapCurrent == \E t \in Threads : swap_current(t)

SwapPath == \E t \in Threads : swap_path(t)

GiveUpTest == \E t \in Threads : give_up_test(t)

GiveUpRest == \E t \in Threads : give_up_rest(t)

SessionRaceNext ==
    \/ GuessTest \/ GuessRest
    \/ SwapTest \/ SwapPair \/ SwapCurrent \/ SwapPath
    \/ GiveUpTest \/ GiveUpRest

SpecSessionRace == SessionRaceInit /\ [][SessionRaceNext]_vars

(***************************************************************************)
(* Creates at the same time.  cleanup_expired_games walks games.items() in *)
(* a list comprehension and then deletes; a dict iterator remembers the    *)
(* size the dict had when the walk began and where it stands among the     *)
(* items, and raises RuntimeError ("dictionary changed size during         *)
(* iteration") from the step that finds another size; del games[gid]       *)
(* raises KeyError for a key that is gone.  Either exception leaves the    *)
(* handler as a 500.  A thread can be switched out between two steps of    *)
(* the walk and between two deletions.                                     *)
(***************************************************************************)
\* The requests a thread has begun and not answered.
InFlight == {t \in Threads : threads[t].pc # "idle"}

\* create_game up to the call of cleanup_expired_games, and the first lines
\* of that: now = time.time(), and the walk over games.items() begins.
create_begin(t, request) ==
    /\ threads[t].pc = "idle"
    /\ issued + Cardinality(InFlight) < MaxCreates
    /\ IF Truthy(request.startActorId) /\ Truthy(request.targetActorId)
       THEN IF \/ Val(request.startActorId) \notin Nodes
               \/ Val(request.targetActorId) \notin Nodes
            THEN respond(t, Answer("create_game", None, 400))
            ELSE /\ threads' = [threads EXCEPT ![t] =
                        [pc |-> "scan", start |-> Val(request.startActorId),
                         target |-> Val(request.targetActorId), t0 |-> now,
                         di_used |-> Len(games), pos |-> 0, expired |-> <<>>]]
                 /\ UNCHANGED last
       ELSE IF Len(starting_pool(GRAPH)) < 2
            THEN respond(t, Answer("create_game", None, 500))
            ELSE \E p \in pick_random_pair(GRAPH, starting_pool(GRAPH)) :
                     /\ threads' = [threads EXCEPT ![t] =
                            [pc |-> "scan", start |-> p[1], target |-> p[2],
                             t0 |-> now, di_used |-> Len(games), pos |-> 0,
                             expired |-> <<>>]]
                     /\ UNCHANGED last
    /\ UNCHANGED <<GRAPH, ACTOR_MOVIE_INDEX, game, registry_vars, daily_vars>>

\* One step of [gid for gid, (_, ts) in games.items() if now - ts > TTL]:
\* RuntimeError when the size is not the one the walk began with, the end of
\* the walk when no item is left, else the next item is looked at.
sweep_next(t) ==
    /\ threads[t].pc = "scan"
    /\ LET me == threads[t]
       IN  IF Len(games) # me.di_used
           THEN respond(t, Answer("create_game", None, 500))
           ELSE /\ threads' = [threads EXCEPT ![t] =
                       IF me.pos >= Len(games)
                       THEN [me EXCEPT !.pc = "del"]
                       ELSE [me EXCEPT
                               !.pos = @ + 1,
                               !.expired =
                                   IF me.t0 - games[me.pos + 1].ts > GAME_TTL_SECONDS
                                   THEN Append(@, games[me.pos + 1].game_id)
                                   ELSE @]]
                /\ UNCHANGED last
    /\ UNCHANGED <<GRAPH, ACTOR_MOVIE_INDEX, game, registry_vars, daily_vars>>

\* The index of the item of key gid.
IndexOf(registry, gid) == CHOOSE i \in 1..Len(registry) : registry[i].game_id = gid

\* registry without its item i.
Without(registry, i) ==
    [k \in 1..(Len(registry) - 1) |-> IF k < i THEN registry[k] ELSE registry[k + 1]]

\* One step of for gid in expired: del games[gid].  KeyError when the key is
\* gone; else the item leaves the dict, and a walk that had passed it stands
\* one item lower among those that remain.
sweep_del(t) ==
    /\ threads[t].pc = "del"
    /\ LET me == threads[t]
       IN  IF me.expired = <<>>
           THEN /\ threads' = [threads EXCEPT ![t] = [me EXCEPT !.pc = "insert"]]
                /\ UNCHANGED <<games, last>>
           ELSE IF Head(me.expired) \notin GameIds(games)
           THEN /\ respond(t, Answer("create_game", None, 500))
                /\ UNCHANGED games
           ELSE LET i == IndexOf(games, Head(me.expired))
                IN  /\ games' = Without(games, i)
                    /\ threads' =
                           [u \in Threads |->
                               IF u = t THEN [me EXCEPT !.expired = Tail(@)]
                               ELSE IF threads[u].pc = "scan" /\ threads[u].pos >= i
                               THEN [threads[u] EXCEPT !.pos = @ - 1]
                               ELSE threads[u]]
                    /\ UNCHANGED last
    /\ UNCHANGED <<GRAPH, ACTOR_MOVIE_INDEX, game, now, issued, daily_vars>>

\* game_id = str(uuid4()); games[game_id] = (MovieConnectionGame(...),
\* time.time()); return
create_insert(t) ==
    /\ threads[t].pc = "insert"
    /\ games' = Append(games,
                       [game_id |-> issued + 1,
                        game |-> NewGame(threads[t].start, threads[t].target,
                                         DefaultMaxIncorrect),
                        ts |-> now])
    /\ issued' = issued + 1
    /\ respond(t, Answer("create_game", Some(issued + 1), 200))
    /\ UNCHANGED <<GRAPH, ACTOR_MOVIE_INDEX, game, now, daily_vars>>

\* games.get(game_id) of a handler of a session.
lookup(game_id) ==
    /\ last' = Answer("get", Some(game_id),
                      IF IsNone(games_get(games, game_id)) THEN 404 ELSE 200)
    /\ UNCHANGED <<GRAPH, ACTOR_MOVIE_INDEX, game, registry_vars, threads, daily_vars>>

CreateRaceInit ==
    /\ GRAPH = LoadedGraph
    /\ ACTOR_MOVIE_INDEX = LoadedIndex
    /\ games = <<>> /\ now = 0 /\ issued = 0
    /\ last = Answer("startup", None, 200)
    /\ threads = [t \in Threads |-> Idle]
    /\ NoSession /\ NoDaily

CreateBegin == \E t \in Threads, request \in CreateRequests : create_begin(t, request)

SweepNext == \E t \in Threads : sweep_next(t)

SweepDel == \E t \in Threads : sweep_del(t)

CreateInsert == \E t \in Threads : create_insert(t)

LookupGame == \E game_id \in 1..MaxCreates : lookup(game_id)

CreateRaceNext ==
    CreateBegin \/ SweepNext \/ SweepDel \/ CreateInsert \/ LookupGame \/ Tick

SpecCreateRace == CreateRaceInit /\ [][CreateRaceNext]_vars

(***************************************************************************)
(* daily_puzzle.py: the daily selector.  A date is a day number; the       *)
(* puzzle id and the dates kept in recent_actors are its %Y%m%d form, read *)
(* as a number (the code compares them as strings of eight digits, which   *)
(* orders them the same way, and seeds the generator with int(puzzle_id)). *)
(* The puzzle id is today's date on Central time, while the selector     *)
(* reads datetime.now(), the date of the server's own time zone, which is *)
(* the day before, the same day or the day after.                          *)
(* state['puzzles'][id] keeps start_actor, target_actor, exclusion_days    *)
(* and fallback; generated_at is written and never read.  The state file   *)
(* holds a pickled state or is missing or unreadable (None).               *)
(*                                                                         *)
(* The generator of the random module is the seed it was given (None for   *)
(* random.seed(), the operating system's entropy) and the number of        *)
(* samples drawn since.  random.sample with a seeded generator is a        *)
(* function of seed, draws and population; the model takes one such        *)
(* function, which runs through the pairs of the population.               *)
(***************************************************************************)
DailyNodeOrder == <<"actor_1", "actor_2", "actor_3", "actor_4", "actor_5">>

\* Four actors of the starting pool, two of them neighbours, and one actor
\* outside the pool.
DailyGraph ==
    [nodes |-> DailyNodeOrder,
     name  |-> [i \in 1..Len(DailyNodeOrder) |-> <<"N", i>>],
     in_starting_pool |->
        [n \in {DailyNodeOrder[i] : i \in 1..Len(DailyNodeOrder)} |-> n # "actor_5"],
     edges |->
        (Edge("actor_2", "actor_4") :> <<EdgeMovie(10)>>)
        @@ (Edge("actor_4", "actor_5") :> <<EdgeMovie(11)>>)]

\* A starting pool of two neighbours: no pair of it is valid.
NeighboursGraph ==
    [nodes |-> <<"actor_1", "actor_2", "actor_3">>,
     name  |-> [i \in 1..3 |-> <<"N", i>>],
     in_starting_pool |-> [n \in {"actor_1", "actor_2", "actor_3"} |-> n # "actor_3"],
     edges |->
        (Edge("actor_1", "actor_2") :> <<EdgeMovie(10)>>)
        @@ (Edge("actor_2", "actor_3") :> <<EdgeMovie(11)>>)]

\* A starting pool of three actors who are all neighbours of one another:
\* every puzzle of it comes from the fallback.
TriangleGraph ==
    [nodes |-> <<"actor_1", "actor_2", "actor_3">>,
     name  |-> [i \in 1..3 |-> <<"N", i>>],
     in_starting_pool |-> [n \in {"actor_1", "actor_2", "actor_3"} |-> TRUE],
     edges |->
        (Edge("actor_1", "actor_2") :> <<EdgeMovie(10)>>)
        @@ (Edge("actor_2", "actor_3") :> <<EdgeMovie(11)>>)
        @@ (Edge("actor_1", "actor_3") :> <<EdgeMovie(12)>>)]

\* The day the behaviours begin on (10 February 2026, counting 1 January
\* as day 0), and the number of days they run on for.
FirstDay == 40

MaxDays == 2

\* strftime("%Y%m%d") of a day of January to March 2026, as a number.
Ymd(day) ==
    IF day < 31 THEN 20260101 + day
    ELSE IF day < 59 THEN 20260201 + (day - 31)
    ELSE 20260301 + (day - 59)

\* The date of datetime.now() less the date on Central time, in days.
ClockSkews == {-1, 0, 1}

\* _get_available_actors taking every actor of the starting pool.
get_available_actors_all(st, graph, day, exclude_days) == starting_pool(graph)

\* daily_puzzle.py: for exclusion_days in [20, 15, 10, 0]
ExclusionWindows == <<20, 15, 10, 0>>

\* daily_puzzle.py: for _ in range(100)
SampleAttempts == 100

\* daily_puzzle.py: timedelta(days=25)
CleanupDays == 25

\* {"puzzles": {}, "recent_actors": {}}
EmptyState == [puzzles |-> <<>>, recent_actors |-> <<>>]

\* random.seed(): seeded from the operating system.
Entropy == [seed |-> None, n |-> 0]

\* random.seed(puzzle_seed)
Seeded(puzzle_seed) == [seed |-> Some(puzzle_seed), n |-> 0]

\* random.sample(population, 2) of a generator seeded with seed that has
\* drawn n samples since.
sample_at(seed, n, population) ==
    LET L == Len(population)
        idx == (seed + 7 * n) % (L * (L - 1))
        i == (idx \div (L - 1)) + 1
        j == (idx % (L - 1)) + 1
    IN  <<population[i], population[IF j >= i THEN j + 1 ELSE j]>>

\* DailyPuzzleManager._load_state
load_state(file) == IF IsNone(file) THEN EmptyState ELSE Val(file)

\* DailyPuzzleManager._save_state: the state is written; or open() fails and
\* the file stays as it was; or open() has emptied the file and the dump
\* fails, which leaves a file that does not load.  The exception is logged.
save_state(file, st) == {Some(st), file, None}

\* DailyPuzzleManager._cleanup_old_actors
cleanup_old_actors(recent_actors, cutoff_date) ==
    [a \in {b \in DOMAIN recent_actors : recent_actors[b] >= cutoff_date}
        |-> recent_actors[a]]

\* DailyPuzzleManager._get_available_actors, datetime.now() being day
get_available_actors(st, graph, day, exclude_days) ==
    LET cutoff_date == Ymd(day - exclude_days)
        recent_actor_ids ==
            {a \in DOMAIN st.recent_actors : st.recent_actors[a] >= cutoff_date}
    IN  SelectSeq(starting_pool(graph), LAMBDA a : a \notin recent_actor_ids)

\* _is_valid_pair without its test for an edge between the two.
is_valid_pair_any_distinct(graph, actor_a, actor_b) == actor_a # actor_b

\* DailyPuzzleManager._is_valid_pair
is_valid_pair(graph, actor_a, actor_b) ==
    IF actor_a = actor_b THEN FALSE
    ELSE IF has_edge(graph, actor_a, actor_b) THEN FALSE
    ELSE TRUE

\* The loop drawing one sample for range(100).
try_pairs_once(graph, available_actors, seed, n) ==
    LET p == sample_at(seed, n, available_actors)
    IN  IF ~is_valid_pair(graph, p[1], p[2])
        THEN [found |-> FALSE, n |-> n + SampleAttempts]
        ELSE [found |-> TRUE, start_actor |-> p[1], target_actor |-> p[2],
              n |-> n + 1]

\* for _ in range(100): sample, and stop at the first valid pair.  n counts
\* the samples drawn from the generator.
try_pairs(graph, available_actors, seed, n) ==
    LET valid == {k \in 0..(SampleAttempts - 1) :
                     LET p == sample_at(seed, n + k, available_actors)
                     IN  is_valid_pair(graph, p[1], p[2])}
        first == CHOOSE k \in valid : \A m \in valid : k <= m
        p == sample_at(seed, n + first, available_actors)
    IN  IF valid = {} THEN [found |-> FALSE, n |-> n + SampleAttempts]
        ELSE [found |-> TRUE, start_actor |-> p[1], target_actor |-> p[2],
              n |-> n + first + 1]

\* The windows from the w-th on, then the fallback: any two actors of the
\* starting pool.
RECURSIVE pick_pair(_, _, _, _, _, _)
pick_pair(st, graph, day, seed, n, w) ==
    IF w > Len(ExclusionWindows)
    THEN LET p == sample_at(seed, n, starting_pool(graph))
         IN  [start_actor |-> p[1], target_actor |-> p[2], exclusion_days |-> 0,
              fallback |-> TRUE, n |-> n + 1]
    ELSE LET available_actors ==
                 get_available_actors(st, graph, day, ExclusionWindows[w])
             tried == try_pairs(graph, available_actors, seed, n)
         IN  IF Len(available_actors) < 2
             THEN pick_pair(st, graph, day, seed, n, w + 1)
             ELSE IF tried.found
             THEN [start_actor |-> tried.start_actor,
                   target_actor |-> tried.target_actor,
                   exclusion_days |-> ExclusionWindows[w],
                   fallback |-> FALSE, n |-> tried.n]
             ELSE pick_pair(st, graph, day, seed, tried.n, w + 1)

\* d[k] = v on a dict
DictSet(d, k, v) == [x \in DOMAIN d \cup {k} |-> IF x = k THEN v ELSE d[x]]

\* The writes that follow a pick: the puzzle, the two recent_actors entries
\* and, for a pick through a window, the cleanup of entries older than 25
\* days.
record_puzzle(st, puzzle_id, pick, day) ==
    LET puzzle == [start_actor |-> pick.start_actor,
                   target_actor |-> pick.target_actor,
                   exclusion_days |-> pick.exclusion_days,
                   fallback |-> pick.fallback]
        recent == DictSet(DictSet(st.recent_actors, pick.start_actor, puzzle_id),
                          pick.target_actor, puzzle_id)
    IN  [puzzles |-> DictSet(st.puzzles, puzzle_id, puzzle),
         recent_actors |->
            IF pick.fallback THEN recent
            ELSE cleanup_old_actors(recent, Ymd(day - CleanupDays))]

\* get_daily_puzzle regenerating every time: no test for a recorded puzzle.
puzzle_never_cached(st, puzzle_id) == FALSE

\* if puzzle_id in self.state["puzzles"]
puzzle_cached(st, puzzle_id) == puzzle_id \in DOMAIN st.puzzles

\* What GET /api/daily-pair answered, and whether the puzzle was found
\* recorded ("Using cached puzzle").
DailyAnswer(puzzle_id, start_actor, target_actor, cached) ==
    [op |-> "daily", puzzle_id |-> puzzle_id, start_actor |-> start_actor,
     target_actor |-> target_actor, cached |-> cached]

\* GET /api/daily-pair, with get_daily_puzzle run from its first line to its
\* return.
get_daily_pair ==
    /\ \E skew \in ClockSkews :
       LET puzzle_id == Ymd(today)
           pick == pick_pair(state, GRAPH, today + skew, puzzle_id, 0, 1)
           recorded == record_puzzle(state, puzzle_id, pick, today + skew)
       IN  IF puzzle_cached(state, puzzle_id)
           THEN /\ last' = DailyAnswer(puzzle_id,
                                       state.puzzles[puzzle_id].start_actor,
                                       state.puzzles[puzzle_id].target_actor, TRUE)
                /\ UNCHANGED <<state, disk, rng>>
           ELSE /\ state' = recorded
                /\ disk' \in save_state(disk, recorded)
                /\ rng' = Entropy
                /\ last' = DailyAnswer(puzzle_id, pick.start_actor,
                                       pick.target_actor, FALSE)
    /\ UNCHANGED <<GRAPH, ACTOR_MOVIE_INDEX, game, registry_vars, threads, today>>

\* The service is started again: load_graph builds a new manager.
Restart ==
    /\ state' = load_state(disk)
    /\ rng' = Entropy
    /\ last' = [op |-> "startup"]
    /\ UNCHANGED <<GRAPH, ACTOR_MOVIE_INDEX, game, registry_vars, threads, disk, today>>

\* Midnight.
NextDay ==
    /\ today < FirstDay + MaxDays
    /\ today' = today + 1
    /\ UNCHANGED <<GRAPH, ACTOR_MOVIE_INDEX, game, last, registry_vars, threads,
                   state, disk, rng>>

\* A state file left by an earlier run: the puzzle of twelve days before.
OlderState ==
    record_puzzle(EmptyState, Ymd(FirstDay - 12),
                  pick_pair(EmptyState, DailyGraph, FirstDay - 12,
                            Ymd(FirstDay - 12), 0, 1),
                  FirstDay - 12)

\* A state file left by an earlier run on the pool of three neighbours: the
\* puzzle of thirty days before.
StaleState ==
    record_puzzle(EmptyState, Ymd(FirstDay - 30),
                  pick_pair(EmptyState, TriangleGraph, FirstDay - 30,
                            Ymd(FirstDay - 30), 0, 1),
                  FirstDay - 30)

\* A state file left by an earlier run on the pool of four: the puzzle of
\* twenty-six days before.
AgedState ==
    record_puzzle(EmptyState, Ymd(FirstDay - 26),
                  pick_pair(EmptyState, DailyGraph, FirstDay - 26,
                            Ymd(FirstDay - 26), 0, 1),
                  FirstDay - 26)

DailyInit ==
    /\ \/ GRAPH = DailyGraph /\ disk \in {None, Some(OlderState), Some(AgedState)}
       \/ GRAPH = NeighboursGraph /\ disk = None
       \/ GRAPH = TriangleGraph /\ disk = Some(StaleState)
    /\ ACTOR_MOVIE_INDEX = NoIndex
    /\ state = load_state(disk)
    /\ rng = Entropy
    /\ today = FirstDay
    /\ last = [op |-> "startup"]
    /\ NoSession /\ NoRegistry /\ NoThreads

DailyNext == get_daily_pair \/ Restart \/ NextDay

SpecDaily == DailyInit /\ [][DailyNext]_vars

(***************************************************************************)
(* GET /api/daily-pair at the same time as other requests.  The selector   *)
(* takes no lock and seeds the generator of the random module, which       *)
(* create_game draws from as well.  get_daily_puzzle is followed in steps: *)
(* the test for a recorded puzzle with random.seed(puzzle_seed); one       *)
(* window of the loop (or the fallback) with its samples; the writes to    *)
(* the state; _save_state; random.seed() and the return.                   *)
(***************************************************************************)
\* The samples other requests draw from a seeded generator, at most.
MaxDraws == 2

\* get_daily_puzzle: the recorded puzzle is returned, or the generator is
\* seeded.  state0 and day0 keep what the call found, for the properties.
daily_begin(t) ==
    /\ threads[t].pc = "idle"
    /\ LET puzzle_id == Ymd(today)
       IN  IF puzzle_cached(state, puzzle_id)
           THEN /\ respond(t, DailyAnswer(puzzle_id,
                                          state.puzzles[puzzle_id].start_actor,
                                          state.puzzles[puzzle_id].target_actor,
                                          TRUE))
                /\ UNCHANGED rng
           ELSE /\ rng' = Seeded(puzzle_id)
                /\ threads' = [threads EXCEPT ![t] =
                       [pc |-> "pick", puzzle_id |-> puzzle_id, w |-> 1,
                        state0 |-> state, day0 |-> today]]
                /\ UNCHANGED last
    /\ UNCHANGED <<GRAPH, ACTOR_MOVIE_INDEX, game, registry_vars, state, disk, today>>

\* The thread goes on to its writes with the pair it picked.
picked(t, start_actor, target_actor, exclusion_days, fallback) ==
    threads' = [threads EXCEPT ![t] =
        [pc |-> "record", puzzle_id |-> threads[t].puzzle_id,
         state0 |-> threads[t].state0, day0 |-> threads[t].day0,
         pick |-> [start_actor |-> start_actor, target_actor |-> target_actor,
                   exclusion_days |-> exclusion_days, fallback |-> fallback]]]

\* One turn of for exclusion_days in [20, 15, 10, 0], or the fallback after
\* the last: the samples come from the generator as it is now, which after
\* someone's random.seed() gives any pair.
daily_pick(t) ==
    /\ threads[t].pc = "pick"
    /\ LET me == threads[t]
           pool == starting_pool(GRAPH)
           available_actors ==
               get_available_actors(state, GRAPH, today, ExclusionWindows[me.w])
           valid == {p \in random_sample_2(available_actors) :
                        is_valid_pair(GRAPH, p[1], p[2])}
           tried == try_pairs(GRAPH, available_actors, Val(rng.seed), rng.n)
           next_window == threads' = [threads EXCEPT ![t] = [me EXCEPT !.w = @ + 1]]
       IN  IF me.w > Len(ExclusionWindows)
           THEN IF IsNone(rng.seed)
                THEN /\ \E p \in random_sample_2(pool) : picked(t, p[1], p[2], 0, TRUE)
                     /\ UNCHANGED rng
                ELSE /\ picked(t, sample_at(Val(rng.seed), rng.n, pool)[1],
                               sample_at(Val(rng.seed), rng.n, pool)[2], 0, TRUE)
                     /\ rng' = [rng EXCEPT !.n = @ + 1]
           ELSE IF Len(available_actors) < 2
           THEN next_window /\ UNCHANGED rng
           ELSE IF IsNone(rng.seed)
           THEN /\ IF valid = {} THEN next_window
                   ELSE \E p \in valid :
                            picked(t, p[1], p[2], ExclusionWindows[me.w], FALSE)
                /\ UNCHANGED rng
           ELSE /\ IF tried.found
                   THEN picked(t, tried.start_actor, tried.target_actor,
                               ExclusionWindows[me.w], FALSE)
                   ELSE next_window
                /\ rng' = [rng EXCEPT !.n = tried.n]
    /\ UNCHANGED <<GRAPH, ACTOR_MOVIE_INDEX, game, last, registry_vars, state, disk,
                   today>>

\* The writes to self.state that follow the pick.
daily_record(t) ==
    /\ threads[t].pc = "record"
    /\ state' = record_puzzle(state, threads[t].puzzle_id, threads[t].pick, today)
    /\ threads' = [threads EXCEPT ![t] = [@ EXCEPT !.pc = "save"]]
    /\ UNCHANGED <<GRAPH, ACTOR_MOVIE_INDEX, game, last, registry_vars, disk, rng,
                   today>>

\* self._save_state()
daily_save(t) ==
    /\ threads[t].pc = "save"
    /\ disk' \in save_state(disk, state)
    /\ threads' = [threads EXCEPT ![t] = [@ EXCEPT !.pc = "return"]]
    /\ UNCHANGED <<GRAPH, ACTOR_MOVIE_INDEX, game, last, registry_vars, state, rng,
                   today>>

\* random.seed(); return start_actor, target_actor
daily_return(t) ==
    /\ threads[t].pc = "return"
    /\ rng' = Entropy
    /\ respond(t, DailyAnswer(threads[t].puzzle_id, threads[t].pick.start_actor,
                              threads[t].pick.target_actor, FALSE))
    /\ UNCHANGED <<GRAPH, ACTOR_MOVIE_INDEX, game, registry_vars, state, disk, today>>

\* create_game on another thread: random.sample(starting_actors, 2).  A draw
\* from a generator seeded by the operating system leaves one like it.
random_draw ==
    /\ ~IsNone(rng.seed) /\ rng.n < MaxDraws
    /\ rng' = [rng EXCEPT !.n = @ + 1]
    /\ UNCHANGED <<GRAPH, ACTOR_MOVIE_INDEX, game, last, registry_vars, threads,
                   state, disk, today>>

DailyRaceInit ==
    /\ GRAPH = DailyGraph
    /\ ACTOR_MOVIE_INDEX = NoIndex
    /\ disk \in {None, Some(OlderState)}
    /\ state = load_state(disk)
    /\ rng = Entropy
    /\ today = FirstDay
    /\ last = [op |-> "startup"]
    /\ threads = [t \in Threads |-> Idle]
    /\ NoSession /\ NoRegistry

DailyBegin == \E t \in Threads : daily_begin(t)

DailyPick == \E t \in Threads : daily_pick(t)

DailyRecord == \E t \in Threads : daily_record(t)

DailySave == \E t \in Threads : daily_save(t)

DailyReturn == \E t \in Threads : daily_return(t)

DailyRaceNext ==
    \/ DailyBegin \/ DailyPick \/ DailyRecord \/ DailySave \/ DailyReturn
    \/ random_draw

SpecDailyRace == DailyRaceInit /\ [][DailyRaceNext]_vars

(***************************************************************************)
(* main.py: GET /api/game/{id}/optimal-path and /optimal-paths.            *)
(* nx.all_shortest_paths(GRAPH, start, target) is networkx's: a            *)
(* breadth-first search from start that keeps, for each node, its          *)
(* predecessors on shortest paths in the order it met them, then the       *)
(* paths read back from target through the predecessor lists, depth        *)
(* first.  G[v] lists the neighbours of v in the order their edges were    *)
(* added, which the model takes to be the order of the nodes.              *)
(***************************************************************************)
\* A movie dict of an edge, with its popularity.
PathMovie(m, popularity) ==
    [id |-> m, title |-> Title(m), poster_path |-> None, popularity |-> popularity]

PathNodeOrder ==
    <<"actor_1", "actor_2", "actor_3", "actor_4", "actor_5", "actor_6", "actor_7",
      "actor_8">>

PathNodeName ==
    [n \in {PathNodeOrder[i] : i \in 1..Len(PathNodeOrder)} |->
        CASE n = "actor_1" -> <<"A", "l">>
          [] n = "actor_2" -> <<"B", "o">>
          [] n = "actor_3" -> <<"B", "o", "b">>
          [] n = "actor_4" -> <<"C">>
          [] n = "actor_5" -> <<"D">>
          [] n = "actor_6" -> <<"E">>
          [] n = "actor_7" -> <<"F">>
          [] OTHER -> <<"G">>]

\* actor_1, actor_2 and actor_3 with the names they have in LoadedGraph, in
\* a triangle; actor_7 two steps from actor_1 through each of actor_2 ..
\* actor_6; actor_8 with no edge.  The paths from actor_1 to actor_7 score
\* 6, 9, 9, 7 and 2 in the order of their middle actors.
PathGraph ==
    [nodes |-> PathNodeOrder,
     name  |-> PathNodeName,
     in_starting_pool |->
        [n \in {PathNodeOrder[i] : i \in 1..Len(PathNodeOrder)} |-> TRUE],
     edges |->
        (Edge("actor_1", "actor_2") :> <<EdgeMovie(10)>>)
        @@ (Edge("actor_2", "actor_3") :> <<EdgeMovie(11), EnrichedMovie(13)>>)
        @@ (Edge("actor_1", "actor_3") :> <<EdgeMovie(12)>>)
        @@ (Edge("actor_1", "actor_5") :> <<EdgeMovie(12)>>)
        @@ (Edge("actor_3", "actor_5") :> <<EdgeMovie(12)>>)
        @@ (Edge("actor_1", "actor_4") :> <<PathMovie(22, 4)>>)
        @@ (Edge("actor_1", "actor_6") :> <<PathMovie(26, 1)>>)
        @@ (Edge("actor_2", "actor_7") :> <<PathMovie(20, 1)>>)
        @@ (Edge("actor_3", "actor_7") :> <<PathMovie(21, 6)>>)
        @@ (Edge("actor_4", "actor_7") :> <<PathMovie(27, 2), PathMovie(23, 5)>>)
        @@ (Edge("actor_5", "actor_7") :> <<PathMovie(25, 4)>>)
        @@ (Edge("actor_6", "actor_7") :> <<PathMovie(26, 1)>>)]

Range(seq) == {seq[i] : i \in 1..Len(seq)}

\* The sequences of a sequence, one after the other.
RECURSIVE Concat(_)
Concat(seqs) == IF seqs = <<>> THEN <<>> ELSE Head(seqs) \o Concat(Tail(seqs))

\* G[v] read from its second neighbour on.
neighbors_but_first(graph, v) ==
    LET ns == SelectSeq(graph.nodes, LAMBDA w : has_edge(graph, v, w))
    IN  IF ns = <<>> THEN ns ELSE Tail(ns)

\* G[v]
neighbors(graph, v) == SelectSeq(graph.nodes, LAMBDA w : has_edge(graph, v, w))

\* nx.predecessor, one level: for v in thislevel: for w in G[v]: the nodes
\* not seen before, each at its first meeting.
RECURSIVE discovered(_, _, _)
discovered(graph, thislevel, seen) ==
    IF thislevel = <<>> THEN <<>>
    ELSE LET n == Len(thislevel)
             before == discovered(graph, SubSeq(thislevel, 1, n - 1), seen)
         IN  before \o SelectSeq(neighbors(graph, thislevel[n]),
                                 LAMBDA w : w \notin seen /\ w \notin Range(before))

\* nx.predecessor: the levels of the search, the source's first.
RECURSIVE bfs_levels(_, _)
bfs_levels(graph, levels) ==
    LET seen == UNION {Range(levels[i]) : i \in 1..Len(levels)}
        nextlevel == discovered(graph, levels[Len(levels)], seen)
    IN  IF nextlevel = <<>> THEN levels
        ELSE bfs_levels(graph, Append(levels, nextlevel))

\* pred[w]: the nodes of the level before w's that have an edge to w, in the
\* order of that level.
predecessor(graph, levels, w) ==
    LET k == CHOOSE i \in 1..Len(levels) : w \in Range(levels[i])
    IN  IF k = 1 THEN <<>>
        ELSE SelectSeq(levels[k - 1], LAMBDA v : has_edge(graph, v, w))

\* _build_paths_from_predecessors: the paths from the source to w, those
\* through pred[w][0] first.
RECURSIVE build_paths(_, _, _)
build_paths(graph, levels, w) ==
    LET pred == predecessor(graph, levels, w)
        through(i) ==
            LET ps == build_paths(graph, levels, pred[i])
            IN  [j \in 1..Len(ps) |-> Append(ps[j], w)]
    IN  IF pred = <<>> THEN <<<<w>>>>
        ELSE Concat([i \in 1..Len(pred) |-> through(i)])

\* list(nx.all_shortest_paths(GRAPH, source, target)); no path at all stands
\* for nx.NetworkXNoPath.
all_shortest_paths(graph, source, target) ==
    LET levels == bfs_levels(graph, <<<<source>>>>)
    IN  IF \A i \in 1..Len(levels) : target \notin Range(levels[i]) THEN <<>>
        ELSE build_paths(graph, levels, target)

\* max(m.get('popularity', 0) for m in movies)
max_movie_popularity(movies) ==
    CHOOSE x \in {movies[i].popularity : i \in 1..Len(movies)} :
        \A i \in 1..Len(movies) : movies[i].popularity <= x

\* What an edge adds to total_popularity: nothing when it lists no movie.
edge_popularity(graph, a, b) ==
    LET movies == graph.edges[Edge(a, b)]
    IN  IF movies = <<>> THEN 0 ELSE max_movie_popularity(movies)

\* total_popularity of a path
RECURSIVE total_popularity(_, _)
total_popularity(graph, path) ==
    IF Len(path) < 2 THEN 0
    ELSE edge_popularity(graph, path[1], path[2]) + total_popularity(graph, Tail(path))

\* get_optimal_path's loop taking a path that ties with the best so far.
RECURSIVE best_of_later_on_tie(_, _, _, _, _)
best_of_later_on_tie(graph, paths, i, best_path, best_popularity) ==
    IF i > Len(paths) THEN best_path
    ELSE IF total_popularity(graph, paths[i]) >= best_popularity
         THEN best_of_later_on_tie(graph, paths, i + 1, Some(paths[i]),
                                   total_popularity(graph, paths[i]))
         ELSE best_of_later_on_tie(graph, paths, i + 1, best_path, best_popularity)

\* for path in all_shortest_paths: ... if total_popularity > best_popularity
RECURSIVE best_of(_, _, _, _, _)
best_of(graph, paths, i, best_path, best_popularity) ==
    IF i > Len(paths) THEN best_path
    ELSE IF total_popularity(graph, paths[i]) > best_popularity
         THEN best_of(graph, paths, i + 1, Some(paths[i]),
                      total_popularity(graph, paths[i]))
         ELSE best_of(graph, paths, i + 1, best_path, best_popularity)

\* The path get_optimal_path takes of the shortest paths (there is one).
pick_actor_path(graph, all_paths) ==
    IF Len(all_paths) = 1 THEN all_paths[1]
    ELSE LET best_path == best_of(graph, all_paths, 1, None, -1)
         IN  IF ~IsNone(best_path) THEN Val(best_path) ELSE all_paths[1]

\* max(movies, key=lambda m: m.get('popularity', 0)): the first of the most
\* popular.
most_popular(movies) ==
    movies[CHOOSE i \in 1..Len(movies) :
              /\ movies[i].popularity = max_movie_popularity(movies)
              /\ \A j \in 1..(i - 1) : movies[j].popularity # movies[i].popularity]

\* The segments of a path: the most popular movie of each edge with the actor
\* the edge leads to; an edge that lists no movie gives no segment.
RECURSIVE build_segments(_, _)
build_segments(graph, actor_path) ==
    IF Len(actor_path) < 2 THEN <<>>
    ELSE LET movies == graph.edges[Edge(actor_path[1], actor_path[2])]
             rest == build_segments(graph, Tail(actor_path))
         IN  IF movies = <<>> THEN rest
             ELSE <<[movie |-> most_popular(movies).id, actor |-> actor_path[2]]>>
                      \o rest

\* The answer of optimal-path: startActor, targetActor and segments, by ids.
PathAnswer(status, start, target, segments) ==
    [op |-> "optimal_path", status |-> status, startActor |-> start,
     targetActor |-> target, segments |-> segments]

\* GET /api/game/{game_id}/optimal-path, for the session followed.
get_optimal_path ==
    /\ LET all_paths == all_shortest_paths(GRAPH, game.start, game.target)
       IN  IF all_paths = <<>>
           THEN last' = PathAnswer(500, None, None, <<>>)
           ELSE last' = PathAnswer(200, Some(game.start), Some(game.target),
                            build_segments(GRAPH, pick_actor_path(GRAPH, all_paths)))
    /\ UNCHANGED <<GRAPH, ACTOR_MOVIE_INDEX, game, registry_vars, threads, daily_vars>>

\* The ids of the most popular movies of a path's edges.
path_movies(graph, path) ==
    {most_popular(graph.edges[Edge(path[i], path[i + 1])]).id :
        i \in {j \in 1..(Len(path) - 1) :
                  graph.edges[Edge(path[j], path[j + 1])] # <<>>}}

\* len(a & b) / len(a | b) if (a or b) else 0, as a fraction.
jaccard(a, b) ==
    IF a \cup b = {} THEN [num |-> 0, den |-> 1]
    ELSE [num |-> Cardinality(a \cap b), den |-> Cardinality(a \cup b)]

\* calculate_path_similarity: 0.7 * movie_jaccard + 0.3 * actor_jaccard, kept
\* as an exact fraction (the code adds two floats).
calculate_path_similarity(path1, path2, graph) ==
    LET movie_jaccard == jaccard(path_movies(graph, path1), path_movies(graph, path2))
        actor_jaccard == jaccard(Range(SubSeq(path1, 2, Len(path1) - 1)),
                                 Range(SubSeq(path2, 2, Len(path2) - 1)))
    IN  [num |-> 7 * movie_jaccard.num * actor_jaccard.den
                    + 3 * actor_jaccard.num * movie_jaccard.den,
         den |-> 10 * movie_jaccard.den * actor_jaccard.den]

\* x < y for two fractions with positive denominators
Less(x, y) == x.num * y.den < y.num * x.den

\* min(calculate_path_similarity(c, s, GRAPH) for s in selected)
min_similarity(graph, c, selected) ==
    LET sims == {calculate_path_similarity(c, selected[i], graph) :
                    i \in 1..Len(selected)}
    IN  CHOOSE x \in sims : \A y \in sims : ~Less(y, x)

\* max(remaining, key=...): the place of the first candidate no other one
\* is less like the selected paths than.
best_candidate(graph, remaining, selected) ==
    CHOOSE i \in 1..Len(remaining) :
        /\ \A j \in 1..Len(remaining) :
              ~Less(min_similarity(graph, remaining[i], selected),
                    min_similarity(graph, remaining[j], selected))
        /\ \A j \in 1..(i - 1) :
              Less(min_similarity(graph, remaining[j], selected),
                   min_similarity(graph, remaining[i], selected))

\* while len(selected) < max_paths and remaining
RECURSIVE add_diverse(_, _, _, _)
add_diverse(graph, selected, remaining, max_paths) ==
    IF Len(selected) < max_paths /\ remaining # <<>>
    THEN LET i == best_candidate(graph, remaining, selected)
         IN  add_diverse(graph, Append(selected, remaining[i]),
                         SubSeq(remaining, 1, i - 1)
                            \o SubSeq(remaining, i + 1, Len(remaining)),
                         max_paths)
    ELSE selected

\* max(all_paths, key=...): the first of the paths of the highest total.
most_popular_path(graph, all_paths) ==
    all_paths[CHOOSE i \in 1..Len(all_paths) :
        /\ \A j \in 1..Len(all_paths) :
              total_popularity(graph, all_paths[j])
                  <= total_popularity(graph, all_paths[i])
        /\ \A j \in 1..(i - 1) :
              total_popularity(graph, all_paths[j])
                  < total_popularity(graph, all_paths[i])]

\* select_diverse_paths
select_diverse_paths(graph, all_paths, max_paths) ==
    IF Len(all_paths) <= max_paths THEN all_paths
    ELSE LET best_path == most_popular_path(graph, all_paths)
         IN  add_diverse(graph, <<best_path>>,
                         SelectSeq(all_paths, LAMBDA p : p # best_path), max_paths)

\* main.py: itertools.islice(all_paths_iter, 100)
ShortestPathsCap == 100

\* The values of the query parameter max_paths the model sends (3 when the
\* request carries none).
MaxPathsInputs == {-1, 0, 1, 2, 3, 4, 5}

\* The answer of optimal-paths: for each path its segments, and the count.
PathsAnswer(status, max_paths, start, target, paths) ==
    [op |-> "optimal_paths", status |-> status, max_paths |-> max_paths,
     startActor |-> start, targetActor |-> target, paths |-> paths,
     count |-> Len(paths)]

\* GET /api/game/{game_id}/optimal-paths?max_paths=..., for the session
\* followed.
get_optimal_paths(max_paths) ==
    /\ LET all_paths ==
               Take(all_shortest_paths(GRAPH, game.start, game.target),
                    ShortestPathsCap)
           selected_paths == select_diverse_paths(GRAPH, all_paths, max_paths)
       IN  IF all_paths = <<>>
           THEN last' = PathsAnswer(500, max_paths, None, None, <<>>)
           ELSE last' = PathsAnswer(200, max_paths, Some(game.start),
                            Some(game.target),
                            [i \in 1..Len(selected_paths) |->
                                build_segments(GRAPH, selected_paths[i])])
    /\ UNCHANGED <<GRAPH, ACTOR_MOVIE_INDEX, game, registry_vars, threads, daily_vars>>

\* The sessions followed on PathGraph: start and target two steps apart
\* with five, one and two shortest paths, neighbours, not connected, and the
\* same actor twice (create_game takes such ids from the client).
PathSessions ==
    {<<"actor_1", "actor_7">>, <<"actor_1", "actor_3">>, <<"actor_1", "actor_2">>,
     <<"actor_2", "actor_6">>, <<"actor_1", "actor_8">>, <<"actor_1", "actor_1">>}

\* The guesses sent on PathGraph: a movie with an actor name.  The names
\* resolve on PathGraph as on LoadedGraph: no other name of PathGraph holds
\* "b", "bo" or "al".
PathGuesses ==
    {<<Some(m), Some(n)>> : m \in {10, 11, 12}, n \in {<<"B", "o">>, <<"b">>, <<" ", "A", "L">>}}

PathsInit ==
    /\ GRAPH = PathGraph
    /\ ACTOR_MOVIE_INDEX = NoIndex
    /\ \E pair \in PathSessions :
           game = NewGame(pair[1], pair[2], DefaultMaxIncorrect)
    /\ last = Response("create_game", FALSE, FALSE, 200, TRUE, "created")
    /\ NoRegistry /\ NoThreads /\ NoDaily

PathGuess == \E body \in PathGuesses : submit_guess(body[1], body[2])

OptimalPaths == \E max_paths \in MaxPathsInputs : get_optimal_paths(max_paths)

PathsNext ==
    \/ PathGuess \/ SwapActors \/ give_up_game \/ get_optimal_path \/ OptimalPaths

SpecPaths == PathsInit /\ [][PathsNext]_vars

(***************************************************************************)
(* norm on its own: a text is drawn, and norm is applied to it and to what *)
(* it returns.                                                             *)
(***************************************************************************)
\* The length of the texts drawn, at most.
NormMaxLen == 3

\* The characters the texts are drawn from.
NormChars == {"a", "B", " ", "e_acute", "o_slash", "nbsp"}

NormTexts == UNION {[1..n -> NormChars] : n \in 0..NormMaxLen}

NormInit ==
    /\ GRAPH = LoadedGraph
    /\ ACTOR_MOVIE_INDEX = NoIndex
    /\ \E s \in NormTexts : last = [op |-> "text", s |-> s]
    /\ NoSession /\ NoRegistry /\ NoThreads /\ NoDaily

\* norm(s), for the text drawn or for what norm returned before.
Normalize ==
    /\ last' = [op |-> "norm", arg |-> last.s, s |-> norm(last.s)]
    /\ UNCHANGED <<GRAPH, ACTOR_MOVIE_INDEX, game, registry_vars, threads, daily_vars>>

SpecNorm == NormInit /\ [][Normalize]_vars

(***************************************************************************)
(* resolve_from_map_loose on its own, as resolve_actor_nodes and           *)
(* resolve_movie_nodes call it (contains=True, limit=50): a lookup map and *)
(* a key are drawn.  A map holds up to four normalized names, the empty    *)
(* one among them (the norm of a name with no ASCII character), each with  *)
(* the nodes that carry it.                                                *)
(***************************************************************************)
\* How many nodes carry a name of the map; none leaves the name out.
ResolveCounts == {0, 30, 51}

ResolveNodes(base, n) == [i \in 1..n |-> base + i]

ResolveMappings ==
    {SelectSeq(<<[key |-> <<"b", "o">>, nodes |-> ResolveNodes(0, n1)],
                 [key |-> <<>>, nodes |-> ResolveNodes(100, n2)],
                 [key |-> <<"b", "o", "b">>, nodes |-> ResolveNodes(200, n3)],
                 [key |-> <<"a", "l">>, nodes |-> ResolveNodes(300, n4)]>>,
               LAMBDA entry : entry.nodes # <<>>) :
        n1, n2, n3, n4 \in ResolveCounts}

\* The names asked for.
ResolveKeys ==
    {<<"B", "o">>, <<"b">>, <<" ", "A", "L">>, <<"z">>, <<>>, <<"o">>, <<"o_slash">>}

ResolveInit ==
    /\ GRAPH = LoadedGraph
    /\ ACTOR_MOVIE_INDEX = NoIndex
    /\ \E key \in ResolveKeys, mapping \in ResolveMappings :
           last = [op |-> "lookup", key |-> key, mapping |-> mapping]
    /\ NoSession /\ NoRegistry /\ NoThreads /\ NoDaily

\* resolve_from_map_loose(key, mapping, contains=True, limit=50)
Resolve ==
    /\ last.op = "lookup"
    /\ last' = [op |-> "resolve", key |-> last.key, mapping |-> last.mapping,
                out |-> resolve_from_map_loose(last.key, last.mapping, TRUE,
                                               ResolveLimit)]
    /\ UNCHANGED <<GRAPH, ACTOR_MOVIE_INDEX, game, registry_vars, threads, daily_vars>>

SpecResolve == ResolveInit /\ [][Resolve]_vars

(***************************************************************************)
(* Properties of the session.                                              *)
(***************************************************************************)
Last(seq) == seq[Len(seq)]

\* C1: after any sequence of guess, give_up and swap_actors requests, current
\* is the last element of path and len(path) = len(movies_used) + 1.
C1_PathShape ==
    /\ game.path # <<>>
    /\ game.current = Last(game.path)
    /\ Len(game.path) = Len(game.movies_used) + 1

\* C1 witness: two accepted moves, then a give-up.
C1_Witness ==
    /\ Len(game.movies_used) = 2
    /\ game.gave_up
    /\ last.op = "give_up"

\* The ids of the movies the graph lists on the edge between a and b.
EdgeMovieIds(graph, a, b) ==
    {get_movies_between_actors(graph, a, b)[k].id :
        k \in 1..Len(get_movies_between_actors(graph, a, b))}

\* The index lists movie_id in the filmographies of both actors.
SharedInIndex(index, a, b, movie_id) ==
    /\ index.present
    /\ movie_id \in DOMAIN index.movies
    /\ ~IsNone(tmdb_id_of(a)) /\ ~IsNone(tmdb_id_of(b))
    /\ HasMovie(Filmography(index, Val(tmdb_id_of(a))), movie_id)
    /\ HasMovie(Filmography(index, Val(tmdb_id_of(b))), movie_id)

\* C2 as stated: every step of the path is an edge of the graph whose movies
\* list holds the id of the movie used for that step.
C2_EdgeListsMovie ==
    \A i \in 1..Len(game.movies_used) :
        /\ has_edge(GRAPH, game.path[i], game.path[i + 1])
        /\ game.movies_used[i].id \in EdgeMovieIds(GRAPH, game.path[i], game.path[i + 1])

\* C2 amended: every step of the path is an edge of the graph, and the movie
\* used for it is on that edge's movies list or is in the index filmographies
\* of both actors of the step.
C2_EdgeOrIndexMovie ==
    \A i \in 1..Len(game.movies_used) :
        /\ has_edge(GRAPH, game.path[i], game.path[i + 1])
        /\ \/ game.movies_used[i].id
                  \in EdgeMovieIds(GRAPH, game.path[i], game.path[i + 1])
           \/ SharedInIndex(ACTOR_MOVIE_INDEX, game.path[i], game.path[i + 1],
                            game.movies_used[i].id)

\* C2 witness: a path with one step accepted through the index only and one
\* accepted through the edge list only.
C2_Witness ==
    /\ \E i \in 1..Len(game.movies_used) :
           game.movies_used[i].id
               \notin EdgeMovieIds(GRAPH, game.path[i], game.path[i + 1])
    /\ \E i \in 1..Len(game.movies_used) :
           ~SharedInIndex(ACTOR_MOVIE_INDEX, game.path[i], game.path[i + 1],
                          game.movies_used[i].id)

\* C3: incorrect_guesses never exceeds max_incorrect (sessions are created
\* with max_incorrect >= 1).
C3_IncorrectBounded == game.incorrect_guesses <= game.max_incorrect

\* C3 witness: the default three tries used up by failed guesses.
C3_Witness ==
    /\ game.max_incorrect = DefaultMaxIncorrect
    /\ game.incorrect_guesses = game.max_incorrect
    /\ ~game.gave_up
    /\ last.op = "guess" /\ ~last.success

\* C4: incorrect_guesses = max_incorrect implies completed.
C4_MaxForcesCompleted ==
    game.incorrect_guesses = game.max_incorrect => game.completed

\* C4 witness: a failed guess has just brought the counter to max_incorrect,
\* after an accepted move.
C4_Witness ==
    /\ game.incorrect_guesses = game.max_incorrect
    /\ game.completed /\ ~game.gave_up
    /\ Len(game.movies_used) >= 1
    /\ last.op = "guess" /\ last.message = "Movie not found in database."

\* C5: a guess on a completed session fails with "Game is already complete."
\* and leaves every field of the session as it was.
C5_GuessOnCompleted ==
    [][(game.completed /\ last'.op = "guess")
          => /\ game' = game
             /\ ~last'.success
             /\ last'.message = "Game is already complete."]_vars

\* C5 witness: a session lost on its tries, after an accepted move and with a
\* pending movie set, has answered a guess.
C5_Witness ==
    /\ game.completed /\ ~game.gave_up
    /\ game.incorrect_guesses = game.max_incorrect
    /\ Len(game.movies_used) >= 1 /\ ~IsNone(game.pending_movie_id)
    /\ last.op = "guess" /\ last.message = "Game is already complete."

\* C6: give_up on a completed session changes no field of it.
C6_GiveUpOnCompleted ==
    [][(game.completed /\ last'.op = "give_up")
          => /\ game' = game
             /\ ~last'.success /\ last'.status = 400]_vars

\* C6 witness: a won session has refused a give-up and is not gave_up.
C6_Witness ==
    /\ game.completed /\ ~game.gave_up
    /\ game.current = game.target /\ Len(game.movies_used) >= 1
    /\ last.op = "give_up" /\ last.status = 400

\* The fields C7 names: everything but the pending movie.
Frozen(g) ==
    <<g.start, g.target, g.current, g.path, g.movies_used,
      g.total_guesses, g.incorrect_guesses, g.completed, g.gave_up>>

\* C7: once completed is true, no request changes start, target, current,
\* path, movies_used, the counters or the flags.
C7_CompletedIsFrozen == [][game.completed => Frozen(game') = Frozen(game)]_vars

\* C8 as stated: every guess on a non-terminal session adds one to
\* total_guesses, whatever its body carries.
C8_EveryGuessCounts ==
    [][(~game.completed /\ last'.op = "guess")
          => game'.total_guesses = game.total_guesses + 1]_vars

\* C8 amended: a guess on a non-terminal session adds one to total_guesses
\* when it carries a movie id, or an actor name while a pending movie is set;
\* a guess with neither, and an actor name with no pending movie, leave
\* total_guesses as it was.
C8_CountedGuessCounts ==
    [][(~game.completed /\ last'.op = "guess")
          => game'.total_guesses =
                 game.total_guesses
                     + (IF \/ last'.has_movie
                           \/ last'.has_actor /\ ~IsNone(game.pending_movie_id)
                        THEN 1 ELSE 0)]_vars

\* C8 witness: an actor-only guess was counted on a session that is still
\* open (a pending movie was set).
C8_Witness ==
    /\ ~game.completed
    /\ last.op = "guess" /\ ~last.has_movie /\ last.has_actor
    /\ last.message = "didn't appear in with"
    /\ game.total_guesses >= 2

\* The failures C9 names.
RuleFailures ==
    {"Movie not found in database.", "didn't appear in",
     "I couldn't find an actor matching", "aren't directly connected",
     "doesn't connect", "didn't appear in with"}

\* C9: a guess on a non-terminal session that fails on a rule raises
\* incorrect_guesses and leaves current as it was.
C9_RuleFailureCounts ==
    [][(~game.completed /\ last'.op = "guess" /\ ~last'.success
            /\ last'.message \in RuleFailures)
          => /\ game'.incorrect_guesses > game.incorrect_guesses
             /\ game'.current = game.current]_vars

\* C9 witness: after an accepted move, a one-shot guess named a connected
\* actor with a movie that does not connect the two.
C9_Witness ==
    /\ Len(game.movies_used) >= 1
    /\ last.op = "guess" /\ last.message = "doesn't connect"
    /\ game.incorrect_guesses >= 1

\* C10: the pending movie is set only by an accepted movie-only guess, it is
\* never carried over a change of current, and every accepted move leaves it
\* cleared.
C10_PendingDiscipline ==
    [][/\ (Len(game'.movies_used) > Len(game.movies_used))
              => IsNone(game'.pending_movie_id)
       /\ (game'.current # game.current) => IsNone(game'.pending_movie_id)
       /\ (game'.pending_movie_id # game.pending_movie_id
               /\ ~IsNone(game'.pending_movie_id))
              => (last'.op = "guess" /\ last'.message = "Valid movie")]_vars

\* C11: swap_actors on a session with no move made exchanges start and
\* target, sets current to the new start and path to [new start], clears any
\* pending movie, and leaves total_guesses and incorrect_guesses unchanged.
C11_SwapResets ==
    [][(Len(game.movies_used) = 0 /\ last'.op = "swap_actors")
          => /\ game'.start = game.target /\ game'.target = game.start
             /\ game'.current = game'.start
             /\ game'.path = <<game'.start>>
             /\ IsNone(game'.pending_movie_id)
             /\ IsNone(game'.pending_movie_dict)
             /\ game'.total_guesses = game.total_guesses
             /\ game'.incorrect_guesses = game.incorrect_guesses]_vars

\* C12: swap_actors after a move is answered 400 and leaves start, target,
\* current, path and movies_used unchanged; a swap that takes effect was made
\* with no move made.
C12_SwapAfterMoveRejected ==
    [][/\ (Len(game.movies_used) > 0 /\ last'.op = "swap_actors")
              => /\ last'.status = 400 /\ ~last'.success
                 /\ game'.start = game.start /\ game'.target = game.target
                 /\ game'.current = game.current /\ game'.path = game.path
                 /\ game'.movies_used = game.movies_used
       /\ (last'.op = "swap_actors" /\ last'.success)
              => Len(game.movies_used) = 0]_vars

\* C12 witness: a swap was refused on a session with an accepted move.
C12_Witness ==
    /\ Len(game.movies_used) >= 1
    /\ game.start # game.target
    /\ last.op = "swap_actors" /\ last.status = 400

\* A session as create_game left it, or as swaps alone have made it.
Fresh(g) == g = NewGame(g.start, g.target, g.max_incorrect)

\* C13: on a freshly created session, the swap that follows a swap gives
\* back the state the first swap started from.
C13_SwapTwiceIsIdentity ==
    [][(Fresh(game) /\ last'.op = "swap_actors")
          => swap_actors(game').game = game]_vars

\* C13 witness: a fresh session of two different actors has been swapped.
C13_Witness ==
    /\ Fresh(game) /\ game.start # game.target
    /\ last.op = "swap_actors" /\ last.success

\* C14: give_up on a non-terminal session sets completed, gave_up and
\* incorrect_guesses = max_incorrect and leaves path, movies_used, current
\* and total_guesses unchanged; every later guess is answered "Game is
\* already complete."; gave_up implies completed and incorrect_guesses =
\* max_incorrect in every state.
C14_GiveUp ==
    /\ [](game.gave_up => (game.completed
                             /\ game.incorrect_guesses = game.max_incorrect))
    /\ [][/\ (~game.completed /\ last'.op = "give_up")
                 => /\ last'.success
                    /\ game'.completed /\ game'.gave_up
                    /\ game'.incorrect_guesses = game.max_incorrect
                    /\ game'.path = game.path
                    /\ game'.movies_used = game.movies_used
                    /\ game'.current = game.current
                    /\ game'.total_guesses = game.total_guesses
          /\ (game.gave_up /\ last'.op = "guess")
                 => /\ ~last'.success
                    /\ last'.message = "Game is already complete."]_vars

\* C14 witness: a session given up after an accepted move and a failed guess
\* (two tries were left) has answered a later guess.
C14_Witness ==
    /\ game.gave_up
    /\ Len(game.movies_used) = 1 /\ game.total_guesses = 2
    /\ IsNone(game.pending_movie_id)
    /\ game.max_incorrect = DefaultMaxIncorrect
    /\ last.op = "guess" /\ last.message = "Game is already complete."

(***************************************************************************)
(* Properties of the registry.                                             *)
(***************************************************************************)
\* C15: the registry never holds more than MAX_GAMES entries.
C15_RegistryCapped == Len(games) <= MAX_GAMES

\* C16: a create that completes leaves no entry in the registry whose age at
\* the sweep exceeded GAME_TTL_SECONDS; no other request removes an entry,
\* and a guess, swap, give-up or get finds every entry of the registry, of
\* whatever age.
C16_EvictionOnlyInCreate ==
    [][/\ (issued' # issued)
              => \A i \in 1..Len(games') :
                     \/ games'[i].game_id = issued'
                     \/ ~(now - games'[i].ts > GAME_TTL_SECONDS)
       /\ (issued' = issued) => GameIds(games') = GameIds(games)
       /\ (/\ now' = now /\ issued' = issued
           /\ last'.op \in {"get", "guess", "swap_actors", "give_up"}
           /\ Val(last'.game_id) \in GameIds(games))
              => last'.status # 404]_vars

\* C16 witness: a session older than GAME_TTL_SECONDS is in the registry next
\* to one a later create inserted before the first expired, and has taken a
\* guess.
C16_Witness ==
    /\ Len(games) = 2
    /\ now - games[1].ts > GAME_TTL_SECONDS
    /\ games[1].game.total_guesses = 1
    /\ last = Answer("guess", Some(games[1].game_id), 200)

(***************************************************************************)
(* Properties of requests in flight together.                              *)
(***************************************************************************)
\* C17: whatever way the steps of guess, swap-actors and give-up requests on
\* one session interleave, once every request has been answered current is
\* the last element of path, len(path) = len(movies_used) + 1 and
\* incorrect_guesses <= max_incorrect, as after the requests one at a time.
C17_SerialOutcome ==
    (\A t \in Threads : threads[t].pc = "idle")
        => /\ game.current = Last(game.path)
           /\ Len(game.path) = Len(game.movies_used) + 1
           /\ game.incorrect_guesses <= game.max_incorrect

\* C18: whatever way the steps of creates and lookups interleave, no create
\* ends in an error from its sweep, and the id a create hands out is in the
\* registry when the create is answered.
C18_CreatesComplete ==
    [][/\ (last' # last /\ last'.op = "create_game") => last'.status # 500
       /\ (issued' # issued) => issued' \in GameIds(games')]_vars

(***************************************************************************)
(* Properties of the daily selector.                                       *)
(***************************************************************************)
\* C19: a call of get_daily_puzzle for a key that has a recorded puzzle
\* returns the recorded pair and changes neither puzzles nor recent_actors,
\* whether or not the state was persisted; no call changes the pair recorded
\* for another key; the state file of a successful persist holds the
\* recorded pairs, and a restart that loads it has the same pairs.
C19_SamePairLater ==
    /\ [](~IsNone(disk)
             => \A k \in DOMAIN Val(disk).puzzles :
                    /\ k \in DOMAIN state.puzzles
                    /\ state.puzzles[k] = Val(disk).puzzles[k])
    /\ [][/\ (/\ last'.op = "daily" /\ today' = today
              /\ Ymd(today) \in DOMAIN state.puzzles)
                 => /\ last'.start_actor = state.puzzles[Ymd(today)].start_actor
                    /\ last'.target_actor = state.puzzles[Ymd(today)].target_actor
                    /\ state' = state
          /\ (last'.op = "daily")
                 => \A k \in DOMAIN state.puzzles :
                        /\ k \in DOMAIN state'.puzzles
                        /\ state'.puzzles[k] = state.puzzles[k]
          /\ (last'.op = "startup" /\ ~IsNone(disk))
                 => \A k \in DOMAIN state.puzzles \cap DOMAIN Val(disk).puzzles :
                        /\ k \in DOMAIN state'.puzzles
                        /\ state'.puzzles[k] = state.puzzles[k]]_vars

\* C19 witness: today's puzzle was answered from the record on the second
\* day of the run, with a state file that does not hold it (the persist
\* failed).
C19_Witness ==
    /\ today = FirstDay + 1
    /\ last.op = "daily" /\ last.cached /\ last.puzzle_id = Ymd(today)
    /\ IsNone(disk) \/ Ymd(today) \notin DOMAIN Val(disk).puzzles

\* C20: the pair a call of get_daily_puzzle picks for a key is the pair the
\* selector picks for that key from the state the call found, whatever other
\* requests run between the steps of the call.
C20_PickIsFunction ==
    \A t \in Threads :
        threads[t].pc = "record"
            => LET ref == pick_pair(threads[t].state0, GRAPH, threads[t].day0,
                                    threads[t].puzzle_id, 0, 1)
               IN  /\ threads[t].pick.start_actor = ref.start_actor
                   /\ threads[t].pick.target_actor = ref.target_actor

\* C21: callers that ask for the same key at the same time all receive the
\* pair recorded for the key, the record of a key being written once: every
\* answer of GET /api/daily-pair carries the pair that puzzles holds for its
\* key, and a recorded puzzle is never written again.
C21_OneAtomicPick ==
    /\ [](last.op = "daily"
            => /\ puzzle_cached(state, last.puzzle_id)
               /\ state.puzzles[last.puzzle_id].start_actor = last.start_actor
               /\ state.puzzles[last.puzzle_id].target_actor = last.target_actor)
    /\ [][\A k \in DOMAIN state.puzzles : state'.puzzles[k] = state.puzzles[k]]_vars

\* C22: every puzzle recorded without the fallback flag has two different
\* actors, both of the starting pool, with no edge between them.
C22_RecordedPairValid ==
    \A k \in DOMAIN state.puzzles :
        LET p == state.puzzles[k]
            pool == starting_pool(GRAPH)
            InPool(a) == \E i \in 1..Len(pool) : pool[i] = a
        IN  ~p.fallback
                => /\ p.start_actor # p.target_actor
                   /\ InPool(p.start_actor)
                   /\ InPool(p.target_actor)
                   /\ ~has_edge(GRAPH, p.start_actor, p.target_actor)

\* A call has just generated and recorded a puzzle through a window, from a
\* pool that holds two neighbours.
C22_Witness ==
    /\ last.op = "daily" /\ ~last.cached
    /\ puzzle_cached(state, last.puzzle_id)
    /\ ~state.puzzles[last.puzzle_id].fallback
    /\ LET pool == starting_pool(GRAPH)
       IN  \E i, j \in 1..Len(pool) : has_edge(GRAPH, pool[i], pool[j])

\* The day whose %Y%m%d form is ymd.
DayOf(ymd) == CHOOSE day \in 0..89 : Ymd(day) = ymd

\* C23: an actor of a recorded puzzle is not an actor of a later puzzle
\* recorded through a window of d days (without fallback) whose day is fewer
\* than d days after.
C23_NoReuseInWindow ==
    \A k1, k2 \in DOMAIN state.puzzles :
        LET p1 == state.puzzles[k1]
            p2 == state.puzzles[k2]
        IN  (/\ k1 < k2
             /\ ~p2.fallback
             /\ DayOf(k2) - DayOf(k1) < p2.exclusion_days)
                => {p1.start_actor, p1.target_actor}
                      \cap {p2.start_actor, p2.target_actor} = {}

\* A puzzle has just been generated through the window of 20 days, fewer
\* than 20 days after another.
C23_Witness ==
    /\ last.op = "daily" /\ ~last.cached
    /\ puzzle_cached(state, last.puzzle_id)
    /\ ~state.puzzles[last.puzzle_id].fallback
    /\ state.puzzles[last.puzzle_id].exclusion_days = 20
    /\ \E k1 \in DOMAIN state.puzzles :
        /\ k1 < last.puzzle_id
        /\ DayOf(last.puzzle_id) - DayOf(k1) < 20

\* The actors of an answer of optimal-path, from startActor on.
AnswerPath(answer) ==
    <<Val(answer.startActor)>>
        \o [i \in 1..Len(answer.segments) |-> answer.segments[i].actor]

\* The paths of n edges from s to t.
PathsOfLength(graph, s, t, n) ==
    {p \in [1..(n + 1) -> Range(graph.nodes)] :
        /\ p[1] = s /\ p[n + 1] = t
        /\ \A i \in 1..n : has_edge(graph, p[i], p[i + 1])}

\* The number of edges of the shortest paths from s to t, for s and t at
\* most three edges apart.
Distance(graph, s, t) ==
    CHOOSE n \in 0..3 :
        /\ PathsOfLength(graph, s, t, n) # {}
        /\ \A m \in 0..(n - 1) : PathsOfLength(graph, s, t, m) = {}

\* C24: the path optimal-path answers is a shortest path from the session's
\* start to its target; no shortest path has a higher sum of the highest
\* popularities of its edges; and of the shortest paths with that sum it is
\* the first that nx.all_shortest_paths enumerates.
C24_OptimalPath ==
    (last.op = "optimal_path" /\ last.status = 200)
        => LET path == AnswerPath(last)
               d == Distance(GRAPH, game.start, game.target)
               all_paths == all_shortest_paths(GRAPH, game.start, game.target)
           IN  /\ Len(path) = d + 1
               /\ path \in PathsOfLength(GRAPH, game.start, game.target, d)
               /\ \A q \in PathsOfLength(GRAPH, game.start, game.target, d) :
                     total_popularity(GRAPH, q) <= total_popularity(GRAPH, path)
               /\ \E j \in 1..Len(all_paths) :
                     /\ all_paths[j] = path
                     /\ \A i \in 1..(j - 1) :
                           total_popularity(GRAPH, all_paths[i])
                               < total_popularity(GRAPH, path)

\* optimal-path has answered for a session with several shortest paths, two
\* of which have the highest sum, the first enumerated having less.
C24_Witness ==
    /\ last.op = "optimal_path" /\ last.status = 200
    /\ LET all_paths == all_shortest_paths(GRAPH, game.start, game.target)
           best == total_popularity(GRAPH, AnswerPath(last))
       IN  /\ Len(all_paths) > 2
           /\ total_popularity(GRAPH, all_paths[1]) < best
           /\ \E i, j \in 1..Len(all_paths) :
                 /\ i # j
                 /\ total_popularity(GRAPH, all_paths[i]) = best
                 /\ total_popularity(GRAPH, all_paths[j]) = best

\* The session was completed by reaching the target.
Won(g) == g.completed /\ ~g.gave_up /\ g.current = g.target

\* C25: for a session the player won, the path optimal-path answers has no
\* more hops than the player's path has movies.
C25_OptimalNoLongerThanPlayed ==
    (last.op = "optimal_path" /\ last.status = 200 /\ Won(game))
        => Len(last.segments) <= Len(game.movies_used)

\* optimal-path has answered for a session the player won by a path longer
\* than the shortest.
C25_Witness ==
    /\ last.op = "optimal_path" /\ last.status = 200 /\ Won(game)
    /\ game.start # game.target
    /\ Len(last.segments) < Len(game.movies_used)

\* C26: whatever max_paths is, optimal-paths answers at most 3 paths, each a
\* shortest path from start to target among the first 100 enumerated, and no
\* path twice.
C26_AtMostThreePaths ==
    (last.op = "optimal_paths" /\ last.status = 200)
        => LET first_paths ==
                   Take(all_shortest_paths(GRAPH, game.start, game.target),
                        ShortestPathsCap)
               answered(i) ==
                   <<game.start>>
                       \o [k \in 1..Len(last.paths[i]) |-> last.paths[i][k].actor]
           IN  /\ last.count <= 3
               /\ \A i \in 1..last.count :
                     /\ answered(i) \in Range(first_paths)
                     /\ Len(answered(i)) =
                            Distance(GRAPH, game.start, game.target) + 1
               /\ \A i, j \in 1..last.count : i # j => answered(i) # answered(j)

\* C27: a create-game request that carries exactly one of startActorId and
\* targetActorId is rejected and creates no session; one that carries both
\* creates a session with those two actors when both are nodes of the graph,
\* and is answered 400 with no session created otherwise.
C27_BothOrNeither ==
    [][\A request \in CreateRequests :
          create_game(request)
              => LET has_start == Truthy(request.startActorId)
                     has_target == Truthy(request.targetActorId)
                 IN  /\ (has_start # has_target)
                            => /\ last'.status # 200
                               /\ issued' = issued
                               /\ GameIds(games') \subseteq GameIds(games)
                     /\ (has_start /\ has_target)
                            => IF /\ Val(request.startActorId) \in Nodes
                                  /\ Val(request.targetActorId) \in Nodes
                               THEN /\ last'.status = 200
                                    /\ Last(games').game.start
                                           = Val(request.startActorId)
                                    /\ Last(games').game.target
                                           = Val(request.targetActorId)
                               ELSE /\ last'.status = 400
                                    /\ issued' = issued
                                    /\ GameIds(games') \subseteq GameIds(games)]_vars

\* C28: norm is idempotent: norm applied to what norm returned gives it back.
C28_NormIdempotent ==
    [][last'.op = "norm" => norm(last'.s) = last'.s]_vars

\* norm has been applied to a text it changes: one with an accent, a letter
\* it drops, a capital and a space at an end once they are gone.
C28_Witness ==
    /\ last.op = "norm"
    /\ last.s # last.arg
    /\ Len(last.s) > 0
    /\ \E i \in 1..Len(last.arg) : last.arg[i] \in {"o_slash", "nbsp"}
    /\ last.s # Strip(last.arg)

\* The nodes of the keys that hold k, in the order of the map.
NodesOfKeysHolding(mapping, k) ==
    Concat([i \in 1..Len(mapping) |->
               IF Contains(mapping[i].key, k) THEN mapping[i].nodes ELSE <<>>])

\* C29: the resolver returns at most 50 identifiers: those of the key equal to
\* the normalized query, in stored order, when the map has that key, and
\* otherwise the first 50 of the identifiers of the keys that hold the query
\* as a substring, in the order of the map.
C29_ResolverResult ==
    last.op = "resolve"
        => LET k == norm(last.key)
           IN  /\ Len(last.out) <= 50
               /\ last.out =
                     Take(IF HasKey(last.mapping, k) THEN Lookup(last.mapping, k)
                          ELSE NodesOfKeysHolding(last.mapping, k), 50)

\* The resolver has cut to 50 the identifiers of two keys that hold a query
\* which is no key itself.
C29_Witness ==
    /\ last.op = "resolve"
    /\ ~HasKey(last.mapping, norm(last.key))
    /\ Len(last.out) = 50
    /\ Len(NodesOfKeysHolding(last.mapping, norm(last.key))) > 50
    /\ \E i, j \in 1..50 : last.out[j] - last.out[i] > 100

\* C30: while a pending movie is set, a guess with a movie id and no actor
\* name leaves the pending movie as it is; and the pending movie is only
\* cleared by a guess with an actor name (with or without a movie id) or by a
\* step that completes the session.
C30_MovieOnlyKeepsPending ==
    [][(~IsNone(game.pending_movie_id) /\ ~game.completed)
          => /\ (last'.op = "guess" /\ last'.has_movie /\ ~last'.has_actor)
                    => /\ game'.pending_movie_id = game.pending_movie_id
                       /\ game'.pending_movie_dict = game.pending_movie_dict
             /\ IsNone(game'.pending_movie_id)
                    => \/ last'.op = "guess" /\ last'.has_actor
                       \/ game'.completed]_vars

\* The movie ids a guess can carry.
GuessMovieIds == {Val(m) : m \in MovieIdInputs \ {None}}

\* The index holds movie_id, and the filmography it keeps for the node names it.
InFilmography(index, node, movie_id) ==
    /\ index.present
    /\ movie_id \in DOMAIN index.movies
    /\ ~IsNone(tmdb_id_of(node))
    /\ \E i \in 1..Len(Filmography(index, Val(tmdb_id_of(node)))) :
           Filmography(index, Val(tmdb_id_of(node)))[i].movie_id = movie_id

\* C31: a guess with a movie id and no actor name on a non-terminal session
\* succeeds exactly when the index holds the movie and the current actor's
\* filmography includes it; then the pending movie is that movie, and
\* otherwise the pending movie is what it was.
C31_MovieOnlyIffInFilmography ==
    [][\A m \in GuessMovieIds :
         (~game.completed /\ submit_guess(Some(m), None))
            => IF InFilmography(ACTOR_MOVIE_INDEX, game.current, m)
               THEN /\ last'.success
                    /\ game'.pending_movie_id = Some(m)
               ELSE /\ ~last'.success
                    /\ game'.pending_movie_id = game.pending_movie_id
                    /\ game'.pending_movie_dict = game.pending_movie_dict]_vars

\* C31 witness: with movie 10 pending, a movie-only guess of a movie the
\* index holds but the current actor is not in was refused, and 10 is still
\* pending.
C31_Witness ==
    /\ ~game.completed
    /\ last.op = "guess" /\ last.has_movie /\ ~last.has_actor
    /\ last.message = "didn't appear in"
    /\ game.pending_movie_id = Some(10)

\* C32: a guess with neither a movie id nor an actor name on a non-terminal
\* session is answered with an error and leaves every field of the session,
\* total_guesses and incorrect_guesses among them, as it was.
C32_NeitherChangesNothing ==
    [][(~game.completed /\ submit_guess(None, None))
          => /\ ~last'.success
             /\ last'.message = "You must provide either a movie or an actor."
             /\ game' = game]_vars

\* C32 witness: a guess with neither came after counted guesses, and the
\* counters stand where those left them.
C32_Witness ==
    /\ ~game.completed
    /\ last.op = "guess" /\ ~last.has_movie /\ ~last.has_actor
    /\ last.message = "You must provide either a movie or an actor."
    /\ game.total_guesses >= 1 /\ game.incorrect_guesses >= 1

\* C33: a guess that is answered success == false leaves start, target,
\* current, path, movies_used and the pending movie as they were; of the
\* session's fields only total_guesses, incorrect_guesses and completed may
\* differ after it.
C33_FailedGuessKeepsPosition ==
    [][(last'.op = "guess" /\ ~last'.success)
          => game' = [game EXCEPT !.total_guesses = game'.total_guesses,
                                  !.incorrect_guesses = game'.incorrect_guesses,
                                  !.completed = game'.completed]]_vars

\* C33 witness: after an accepted move and an accepted movie, an actor guess
\* failed; the move and the pending movie are still there.
C33_Witness ==
    /\ last.op = "guess" /\ ~last.success /\ last.has_actor /\ ~last.has_movie
    /\ last.message = "didn't appear in with"
    /\ Len(game.movies_used) = 1 /\ Len(game.path) = 2
    /\ ~IsNone(game.pending_movie_id)

\* The session is a win.
IsWin(g) == g.completed /\ ~g.gave_up /\ g.incorrect_guesses < g.max_incorrect

\* C34: in a session whose start and target differ, the session is a win
\* exactly when current is the target; so no session that is still open
\* stands on its target, and the step that moves current onto the target
\* completes the session.
C34_WinIffOnTarget ==
    /\ [](game.start # game.target
            => /\ IsWin(game) <=> game.current = game.target
               /\ ~game.completed => game.current # game.target)
    /\ [][(game.start # game.target /\ game'.current # game.current
              /\ game'.current = game'.target)
            => (game'.completed /\ last'.success)]_vars

\* C34 witness: a second accepted move reached the target of a session whose
\* start and target differ, after a wrong guess, and the session is a win.
C34_Witness ==
    /\ game.start # game.target
    /\ Len(game.movies_used) = 2
    /\ game.current = game.target
    /\ game.incorrect_guesses >= 1
    /\ IsWin(game)

\* The movie ids of movies_used, in order.
MovieIdsUsed(g) == [i \in 1..Len(g.movies_used) |-> g.movies_used[i].id]

\* guess(movie m) and then guess(actor a) from g, and guess(m, a) from g.
TwoStep(g, m, a) ==
    LET first == guess(g, GRAPH, ACTOR_MOVIE_INDEX, Some(m), None)
    IN  [first  |-> first,
         second |-> guess(first.game, GRAPH, ACTOR_MOVIE_INDEX, None, Some(a))]

OneShot(g, m, a) == guess(g, GRAPH, ACTOR_MOVIE_INDEX, Some(m), Some(a))

\* The two ways end in the same place, one guess apart.
SameOutcome(two, one) ==
    /\ two.current = one.current
    /\ two.path = one.path
    /\ MovieIdsUsed(two) = MovieIdsUsed(one)
    /\ two.completed = one.completed
    /\ two.total_guesses = one.total_guesses + 1

\* The half of C35 that holds: what the two steps accept, the one-shot guess
\* accepts, with the same outcome.
C35_TwoStepImpliesOneShot ==
    (~game.completed /\ IsNone(game.pending_movie_id))
        => \A m \in GuessMovieIds, a \in ActorNames :
               (TwoStep(game, m, a).first.success /\ TwoStep(game, m, a).second.success)
                   => /\ OneShot(game, m, a).success
                      /\ SameOutcome(TwoStep(game, m, a).second.game,
                                     OneShot(game, m, a).game)

\* C35: from a non-terminal session with no pending movie, guess(movie m)
\* then guess(actor a) both succeed exactly when guess(m, a) succeeds, and
\* then both leave the same current, path, movie ids in movies_used and
\* completed flag, with total_guesses one apart.
C35_TwoStepSameAsOneShot ==
    (~game.completed /\ IsNone(game.pending_movie_id))
        => \A m \in GuessMovieIds, a \in ActorNames :
               /\ (TwoStep(game, m, a).first.success /\ TwoStep(game, m, a).second.success)
                      <=> OneShot(game, m, a).success
               /\ OneShot(game, m, a).success
                      => SameOutcome(TwoStep(game, m, a).second.game,
                                     OneShot(game, m, a).game)

\* The actors window v leaves available on day, and the samples the windows
\* before v have drawn when none of them produced a pair.
WindowActors(st, graph, day, v) == get_available_actors(st, graph, day, ExclusionWindows[v])

DrawnBefore(st, graph, day, v) ==
    SampleAttempts * Cardinality({u \in 1..(v - 1) : Len(WindowActors(st, graph, day, u)) >= 2})

\* The k-th sample of window v is a valid pair.
ValidSample(st, graph, day, seed, v, k) ==
    LET p == sample_at(seed, DrawnBefore(st, graph, day, v) + k,
                       WindowActors(st, graph, day, v))
    IN  p[1] # p[2] /\ ~has_edge(graph, p[1], p[2])

\* Window v has fewer than two actors, or none of its samples is a valid pair.
WindowFails(st, graph, day, seed, v) ==
    \/ Len(WindowActors(st, graph, day, v)) < 2
    \/ \A k \in 0..(SampleAttempts - 1) : ~ValidSample(st, graph, day, seed, v, k)

\* Window v has two actors or more, and its first valid sample is <<a, b>>.
WindowYields(st, graph, day, seed, v, a, b) ==
    /\ Len(WindowActors(st, graph, day, v)) >= 2
    /\ \E k \in 0..(SampleAttempts - 1) :
          /\ ValidSample(st, graph, day, seed, v, k)
          /\ \A j \in 0..(k - 1) : ~ValidSample(st, graph, day, seed, v, j)
          /\ <<a, b>> = sample_at(seed, DrawnBefore(st, graph, day, v) + k,
                                  WindowActors(st, graph, day, v))

\* The starting pool as a set.
PoolSet(graph) == {starting_pool(graph)[i] : i \in 1..Len(starting_pool(graph))}

\* C36: a puzzle recorded with exclusion_days = d through a window is the
\* first valid sample of that window, every window before it in the order
\* 20, 15, 10, 0 having had fewer than 2 available actors or no valid pair in
\* its 100 samples; a puzzle flagged fallback is recorded only when all four
\* windows failed; and the call answers with two distinct actors of the
\* starting pool, recorded under the key.
C36_WindowsInOrder ==
    [][(Ymd(today) \notin DOMAIN state.puzzles /\ get_daily_pair)
          => LET key == Ymd(today)
                 p   == state'.puzzles[key]
             IN  /\ ExclusionWindows = <<20, 15, 10, 0>>
                 /\ key \in DOMAIN state'.puzzles
                 /\ last'.start_actor = p.start_actor
                 /\ last'.target_actor = p.target_actor
                 /\ p.start_actor # p.target_actor
                 /\ {p.start_actor, p.target_actor} \subseteq PoolSet(GRAPH)
                 /\ \E skew \in ClockSkews :
                       IF p.fallback
                       THEN \A v \in 1..4 :
                                WindowFails(state, GRAPH, today + skew, key, v)
                       ELSE \E w \in 1..4 :
                               /\ p.exclusion_days = ExclusionWindows[w]
                               /\ WindowYields(state, GRAPH, today + skew, key, w,
                                               p.start_actor, p.target_actor)
                               /\ \A v \in 1..(w - 1) :
                                      WindowFails(state, GRAPH, today + skew, key, v)]_vars

\* C36 witness: a puzzle was recorded through the 10-day window, the 20-day
\* and 15-day windows having failed.
C36_Witness ==
    /\ last.op = "daily" /\ ~last.cached
    /\ last.puzzle_id \in DOMAIN state.puzzles
    /\ state.puzzles[last.puzzle_id].exclusion_days = 10
    /\ ~state.puzzles[last.puzzle_id].fallback

\* The fallback was used.
C36_FallbackReached ==
    /\ last.op = "daily" /\ ~last.cached
    /\ last.puzzle_id \in DOMAIN state.puzzles
    /\ state.puzzles[last.puzzle_id].fallback

\* C37: when a call has recorded a new puzzle, through a window or through
\* the fallback, recent_actors maps the puzzle's two actors to its key and
\* holds no entry dated more than 25 days before today.
C37_RecentActorsPruned ==
    [][(Ymd(today) \notin DOMAIN state.puzzles /\ get_daily_pair)
          => /\ state'.recent_actors[last'.start_actor] = Ymd(today)
             /\ state'.recent_actors[last'.target_actor] = Ymd(today)
             /\ \A a \in DOMAIN state'.recent_actors :
                    DayOf(state'.recent_actors[a]) >= today - CleanupDays]_vars

\* What holds of C37: the two actors of a new puzzle are entered under its
\* key, and a puzzle recorded through a window leaves no entry dated more
\* than 26 days before today (the cutoff is taken from the local date, which
\* may be the day before the Central date).
C37_WindowPrunes ==
    [][(Ymd(today) \notin DOMAIN state.puzzles /\ get_daily_pair)
          => /\ state'.recent_actors[last'.start_actor] = Ymd(today)
             /\ state'.recent_actors[last'.target_actor] = Ymd(today)
             /\ ~state'.puzzles[Ymd(today)].fallback
                   => \A a \in DOMAIN state'.recent_actors :
                          DayOf(state'.recent_actors[a]) >= today - CleanupDays - 1]_vars

\* A puzzle was recorded through a window while an entry of 26 days before
\* stayed in recent_actors.
C37_AgedEntryKept ==
    /\ last.op = "daily" /\ ~last.cached
    /\ last.puzzle_id = Ymd(today)
    /\ ~state.puzzles[Ymd(today)].fallback
    /\ \E a \in DOMAIN state.recent_actors :
           DayOf(state.recent_actors[a]) = today - CleanupDays - 1

\* A puzzle was recorded through a window and the cleanup removed an entry.
C37_AgedEntryRemoved ==
    /\ last.op = "daily" /\ ~last.cached
    /\ last.puzzle_id = Ymd(FirstDay)
    /\ today = FirstDay
    /\ GRAPH = DailyGraph
    /\ Ymd(FirstDay - 26) \in DOMAIN state.puzzles
    /\ Cardinality(DOMAIN state.recent_actors) = 2

\* The i-th path of an answer of optimal-paths, as actors from start on.
AnsweredPath(i) ==
    <<game.start>> \o [k \in 1..Len(last.paths[i]) |-> last.paths[i][k].actor]

\* Jaccard of two sets, 0 for two empty sets, as a fraction.
Jaccard(a, b) ==
    [num |-> Cardinality(a \cap b),
     den |-> IF a \cup b = {} THEN 1 ELSE Cardinality(a \cup b)]

\* sim(p, q) = 0.7 Jaccard(movies) + 0.3 Jaccard(intermediate actors)
Sim(p, q) ==
    LET m == Jaccard(path_movies(GRAPH, p), path_movies(GRAPH, q))
        a == Jaccard({p[i] : i \in 2..(Len(p) - 1)}, {q[i] : i \in 2..(Len(q) - 1)})
    IN  [num |-> 7 * m.num * a.den + 3 * a.num * m.den, den |-> 10 * m.den * a.den]

\* s is the least of sim(p, q) over the paths q answered before the i-th.
MinSimBefore(p, i, s) ==
    /\ \E j \in 1..(i - 1) : s = Sim(p, AnsweredPath(j))
    /\ \A j \in 1..(i - 1) : ~Less(Sim(p, AnsweredPath(j)), s)

\* The answer is what the selection of the k most diverse of paths gives:
\* the count, the most popular path first, and each further path one that
\* is least like the paths before it.
DiverseSelection(paths, k) ==
    /\ last.count = IF k <= Len(paths) THEN k ELSE Len(paths)
    /\ \A i \in 1..last.count : AnsweredPath(i) \in Range(paths)
    /\ \A p \in Range(paths) :
           total_popularity(GRAPH, p) <= total_popularity(GRAPH, AnsweredPath(1))
    /\ \A i \in 2..last.count :
          /\ \A j \in 1..(i - 1) : AnsweredPath(j) # AnsweredPath(i)
          /\ \A q \in Range(paths) \ {AnsweredPath(j) : j \in 1..(i - 1)} :
                \A s \in {Sim(AnsweredPath(i), AnsweredPath(j)) : j \in 1..(i - 1)},
                   t \in {Sim(q, AnsweredPath(j)) : j \in 1..(i - 1)} :
                      (MinSimBefore(AnsweredPath(i), i, s) /\ MinSimBefore(q, i, t))
                          => ~Less(s, t)

\* C38: for max_paths = k >= 1 and P the enumerated shortest paths,
\* optimal-paths answers min(k, |P|) paths, the first the path of the highest
\* total popularity, each further one a path not yet selected whose least
\* similarity to the paths selected before it is the greatest.
C38_DiversePaths ==
    (last.op = "optimal_paths" /\ last.status = 200 /\ last.max_paths >= 1)
        => DiverseSelection(Take(all_shortest_paths(GRAPH, game.start, game.target),
                                 ShortestPathsCap),
                            last.max_paths)

\* What holds of C38: the same when fewer paths are asked for than there
\* are.
C38_DiverseWhenFewerAsked ==
    (/\ last.op = "optimal_paths" /\ last.status = 200 /\ last.max_paths >= 1
     /\ last.max_paths < Len(all_shortest_paths(GRAPH, game.start, game.target)))
        => DiverseSelection(Take(all_shortest_paths(GRAPH, game.start, game.target),
                                 ShortestPathsCap),
                            last.max_paths)

\* Three of five shortest paths were answered.
C38_ThreeOfFive ==
    /\ last.op = "optimal_paths" /\ last.status = 200
    /\ last.max_paths = 3 /\ last.count = 3
    /\ Len(all_shortest_paths(GRAPH, game.start, game.target)) = 5

\* C39: every session the registry holds has start # target, whether
\* create_game picked the pair from the starting pool or took it from the
\* request, and after any swap_actors.
C39_StartIsNotTarget ==
    \A i \in 1..Len(games) : games[i].game.start # games[i].game.target

\* What holds of C39: a session whose pair create_game picked at random has
\* start # target, and swap_actors leaves start # target where it held.
C39_RandomPairsDiffer ==
    [][/\ create_game([startActorId |-> None, targetActorId |-> None])
           => Last(games').game.start # Last(games').game.target
       /\ \A i \in 1..Len(games) :
              (i <= Len(games') /\ games'[i].game_id = games[i].game_id
                  /\ games[i].game.start # games[i].game.target)
                 => games'[i].game.start # games'[i].game.target]_vars

\* C40: a guess, a give-up or a swap on one session leaves every other
\* session of the registry as it was, and with them the registry's keys and
\* creation times, the graph and the indexes.
C40_OnlyThatSession ==
    [][(last'.op \in {"guess", "swap_actors", "give_up"})
          => /\ Len(games') = Len(games)
             /\ \A i \in 1..Len(games) :
                   /\ games'[i].game_id = games[i].game_id
                   /\ games'[i].ts = games[i].ts
                   /\ Some(games[i].game_id) # last'.game_id
                         => games'[i].game = games[i].game
             /\ GRAPH' = GRAPH
             /\ ACTOR_MOVIE_INDEX' = ACTOR_MOVIE_INDEX]_vars

\* C40 witness: of two sessions created at different times, the second took
\* an accepted guess and the first is as create_game left it.
C40_Witness ==
    /\ Len(games) = 2
    /\ games[1].ts < games[2].ts
    /\ last.op = "guess" /\ last.game_id = Some(games[2].game_id)
    /\ Len(games[2].game.movies_used) = 1
    /\ Fresh(games[1].game)

====
